---- MODULE Spec2Model ----
(***************************************************************************)
(* Sigma-A parameter estimation of servalcat (servalcat/xtal/sigmaa.py):   *)
(* the per-bin likelihood (mlf, deriv_mlf_wrt_D_S), the per-bin estimator  *)
(* (determine_mlf_params) and the map-coefficient / FOM synthesizer (the   *)
(* tail of main).                                                          *)
(*                                                                         *)
(* Number representation.  Floating-point values are fixed-point integers: *)
(*   - amplitudes (FP, |Fc|, DFc), D, FOM, S, Sigma and the loss are held  *)
(*     in units of 1/Q;                                                    *)
(*   - structure factors are pairs <<re, im>> of integers;                 *)
(*   - a phase is held exactly, as the primitive integer direction of the  *)
(*     complex number it is the angle of; a map coefficient                *)
(*     (amplitude * e^(i phi)) is the pair [amp, ph].                      *)
(* The special functions of gemmi / numpy that the code calls (log,        *)
(* log_bessel_i0, bessel_i1_over_i0, log_cosh, tanh) and the optimizer of  *)
(* scipy are libraries; they are modelled by integer approximations of the *)
(* same shape (range, monotonicity, saturation).                           *)
(***************************************************************************)
EXTENDS Integers, Sequences, FiniteSets, TLC

\* ---------------------------------------------------------------- bounds
NRefl == 5          \* number of reflections in the table
NBins == 2          \* --nbins
NModels == 3        \* len(sts) + 1: the atomic models and the bulk solvent
Q == 100            \* fixed-point resolution
MaxIter == 2        \* iterations the optimizer model may take
NInputs == 2        \* number of input files (data set, resolution order) Init draws from

Refl == 1..NRefl
Bins == 1..NBins

\* ------------------------------------------------------------ arithmetic
Abs(x) == IF x < 0 THEN -x ELSE x
Sgn(x) == IF x < 0 THEN -1 ELSE IF x > 0 THEN 1 ELSE 0
Min2(a, b) == IF a < b THEN a ELSE b
Max2(a, b) == IF a > b THEN a ELSE b

RECURSIVE Gcd(_, _)
Gcd(a, b) == IF b = 0 THEN a ELSE Gcd(b, a % b)

RECURSIVE ISqrtIter(_, _, _)
ISqrtIter(n, lo, hi) ==
  IF lo >= hi THEN lo
  ELSE LET mid == (lo + hi + 1) \div 2
       IN IF mid * mid <= n THEN ISqrtIter(n, mid, hi)
                            ELSE ISqrtIter(n, lo, mid - 1)

\* floor of the square root
ISqrt(n) == IF n <= 0 THEN 0 ELSE ISqrtIter(n, 0, Min2(n, 46340))

RECURSIVE SumOver(_, _)
SumOver(f, S) ==
  IF S = {} THEN 0
  ELSE LET x == CHOOSE y \in S : TRUE
       IN f[x] + SumOver(f, S \ {x})

\* a numpy array of n numbers: the function f on 1..n as a sequence
Array(f, n) == SubSeq(f, 1, n)

VecAdd(u, v) == Array([i \in 1..Len(u) |-> u[i] + v[i]], Len(u))

RECURSIVE SumVecOver(_, _, _)
\* the element-wise sum of the arrays f[x], x in S; n: their length
SumVecOver(f, S, n) ==
  IF S = {} THEN Array([i \in 1..n |-> 0], n)
  ELSE LET x == CHOOSE y \in S : TRUE
       IN VecAdd(f[x], SumVecOver(f, S \ {x}, n))

\* --------------------------------------------------------- complex numbers
CAdd(a, b) == <<a[1] + b[1], a[2] + b[2]>>
CScale(k, a) == <<k * a[1], k * a[2]>>
CNorm2(a) == a[1] * a[1] + a[2] * a[2]

\* numpy.angle: the phase, as the primitive direction; angle(0) = 0
Angle(a) ==
  IF a = <<0, 0>> THEN <<1, 0>>
  ELSE LET g == Gcd(Abs(a[1]), Abs(a[2]))
       IN <<a[1] \div g, a[2] \div g>>

\* two polar values amp * e^(i ph) denote the same complex number
SameCplx(u, v) ==
  \/ u.amp = 0 /\ v.amp = 0
  \/ u.amp = v.amp /\ u.ph = v.ph
  \/ u.amp = -v.amp /\ u.ph = <<-v.ph[1], -v.ph[2]>>

\* ------------------------------------------------------ library functions
Ln2 == (693 * Q) \div 1000

\* numpy.log of a fixed-point value; NegInf stands for log(0) = -inf
NegInf == -1000000
RECURSIVE Ln(_)
Ln(v) ==
  IF v <= 0 THEN NegInf
  ELSE IF v >= 2 * Q THEN Ln2 + Ln(v \div 2)
  ELSE IF v < Q THEN Ln(2 * v) - Ln2
  ELSE ((v - Q) * Ln2) \div Q

XSat == 100 * Q     \* argument from which the approximations are cut off

\* gemmi.bessel_i1_over_i0: below 1 in absolute value for every argument
\* a table of this size can produce
bessel_i1_over_i0(x) ==
  IF Abs(x) >= XSat THEN Sgn(x) * (Q - 1)
  ELSE Max2(-(Q - 1), Min2(Q - 1, (Q * x) \div (Q + ISqrt(Q * Q + x * x))))

\* gemmi.log_bessel_i0
log_bessel_i0(x) ==
  LET r == IF Abs(x) >= XSat THEN Abs(x) ELSE ISqrt(Q * Q + x * x)
  IN r - Q - Ln((Q + r) \div 2)

\* the argument from which numpy.tanh is 1.0 in double precision (19.06)
TanhOne == (1906 * Q) \div 100

\* numpy.tanh
tanh(x) ==
  IF Abs(x) >= TanhOne THEN Sgn(x) * Q
  ELSE IF Abs(x) >= 4 * Q THEN Sgn(x) * (Q - 1)
  ELSE LET x2 == (x * x) \div Q
           v == (x * (27 * Q + x2)) \div (27 * Q + 9 * x2)
       IN Max2(-(Q - 1), Min2(Q - 1, v))

\* gemmi.log_cosh
log_cosh(x) ==
  LET a == Min2(Abs(x), XSat)
  IN ISqrt(a * a + Ln2 * Ln2) - Ln2

\* ------------------------------------------------------- likelihood model
\* Ds, S: fixed-point (1/Q); Fo, varFo, epsilon: integers; Fcs: complex

RECURSIVE SumDFc(_, _, _)
\* sum of Ds[i] * Fcs[i] for i = k .. len(Ds)   (python: range(1, len(Ds)))
SumDFc(Ds, Fcs, k) ==
  IF k > Len(Ds) THEN <<0, 0>>
  ELSE CAdd(CScale(Ds[k], Fcs[k]), SumDFc(Ds, Fcs, k + 1))

\* Ds[0] applied to component 0 inside the sum
sum_Fc_D0_inside(Ds, Fcs) == CAdd(CScale(Ds[1], Fcs[1]), SumDFc(Ds, Fcs, 2))

\* Fc = Fcs[0] + sum Ds[i] * Fcs[i], as a complex number in units of 1/Q
sum_Fc(Ds, Fcs) == CAdd(CScale(Q, Fcs[1]), SumDFc(Ds, Fcs, 2))

calc_abs_sum_Fc(Ds, Fcs) == ISqrt(CNorm2(sum_Fc(Ds, Fcs)))

\* Ds[0] * calc_abs_sum_Fc(Ds, Fcs)
calc_DFc(Ds, Fcs) == (Ds[1] * calc_abs_sum_Fc(Ds, Fcs)) \div Q

Sigma_acentric(varFo, S, epsilon) == 2 * Q * varFo + epsilon * S
\* the acentric Sigma in the centric functions
Sigma_centric_as_acentric(varFo, S, epsilon) == 2 * Q * varFo + epsilon * S

Sigma_centric(varFo, S, epsilon) == Q * varFo + epsilon * S

deriv_DFc2_and_DFc_dDj(Ds, Fcs) ==
  LET Fc == sum_Fc(Ds, Fcs)
      aFc == ISqrt(CNorm2(Fc))
      rsq(j) == 2 * (Fcs[j][1] * Fc[1] + Fcs[j][2] * Fc[2])
  IN Array([j \in 1..Len(Ds) |->
              IF j = 1
              THEN <<(2 * Ds[1] * ((aFc * aFc) \div Q)) \div Q, aFc>>
              ELSE <<(Ds[1] * ((Ds[1] * rsq(j)) \div Q)) \div Q,
                     IF aFc = 0 THEN 0 ELSE (Ds[1] * rsq(j)) \div (2 * aFc)>>],
           Len(Ds))

\* numpy.tanh in the place of gemmi.bessel_i1_over_i0
fom_acentric_by_tanh(Fo, varFo, Fcs, Ds, S, epsilon) ==
  LET Sigma == Sigma_acentric(varFo, S, epsilon)
  IN tanh((2 * Q * Fo * calc_DFc(Ds, Fcs)) \div Sigma)

fom_acentric(Fo, varFo, Fcs, Ds, S, epsilon) ==
  LET Sigma == Sigma_acentric(varFo, S, epsilon)
  IN bessel_i1_over_i0((2 * Q * Fo * calc_DFc(Ds, Fcs)) \div Sigma)

fom_centric(Fo, varFo, Fcs, Ds, S, epsilon) ==
  LET Sigma == Sigma_centric(varFo, S, epsilon)
  IN tanh((Q * Fo * calc_DFc(Ds, Fcs)) \div Sigma)

mlf_acentric(Fo, varFo, Fcs, Ds, S, epsilon) ==
  LET Sigma == Sigma_acentric(varFo, S, epsilon)
      DFc == calc_DFc(Ds, Fcs)
      FoQ == Q * Fo
      ret == Ln2 + Ln(FoQ) - Ln(Sigma)
             - ((FoQ * FoQ + DFc * DFc) \div Sigma)
             + log_bessel_i0((2 * FoQ * DFc) \div Sigma)
  IN -ret

LnTwoOverPi == -((452 * Q) \div 1000)

mlf_centric(Fo, varFo, Fcs, Ds, S, epsilon) ==
  LET Sigma == Sigma_centric(varFo, S, epsilon)
      DFc == calc_DFc(Ds, Fcs)
      FoQ == Q * Fo
      ret == ((LnTwoOverPi - Ln(Sigma)) \div 2)
             - ((FoQ * FoQ + DFc * DFc) \div (2 * Sigma))
             + log_cosh((FoQ * DFc) \div Sigma)
  IN -ret

\* the result has 1 + len(Ds) entries: d/dD0 .. d/dD(n-1), d/dS
deriv_mlf_wrt_D_S_acentric(Fo, varFo, Fcs, Ds, S, epsilon) ==
  LET Sigma == Sigma_acentric(varFo, S, epsilon)
      FoQ == Q * Fo
      tmp == deriv_DFc2_and_DFc_dDj(Ds, Fcs)
      DFc == (Ds[1] * tmp[1][2]) \div Q
      i1_i0_x == bessel_i1_over_i0((2 * FoQ * DFc) \div Sigma)
      mFo2 == (i1_i0_x * 2 * FoQ) \div Q
  IN Array([i \in 1..(Len(Ds) + 1) |->
              IF i <= Len(Ds)
              THEN -(-((Q * tmp[i][1]) \div Sigma) + (mFo2 * tmp[i][2]) \div Sigma)
              ELSE -((-((Q * Q) \div Sigma)
                      + (((FoQ * FoQ + DFc * DFc - mFo2 * DFc) \div Sigma) * Q)
                          \div Sigma) * epsilon)],
           Len(Ds) + 1)

deriv_mlf_wrt_D_S_centric(Fo, varFo, Fcs, Ds, S, epsilon) ==
  LET Sigma == Sigma_centric(varFo, S, epsilon)
      FoQ == Q * Fo
      tmp == deriv_DFc2_and_DFc_dDj(Ds, Fcs)
      DFc == (Ds[1] * tmp[1][2]) \div Q
      tanh_x == tanh((FoQ * DFc) \div Sigma)
      mFo == (tanh_x * FoQ) \div Q
  IN Array([i \in 1..(Len(Ds) + 1) |->
              IF i <= Len(Ds)
              THEN -(-((Q * tmp[i][1]) \div (2 * Sigma)) + (mFo * tmp[i][2]) \div Sigma)
              ELSE -((-((Q * Q) \div (2 * Sigma))
                      + ((((FoQ * FoQ + DFc * DFc) \div 2 - mFo * DFc) \div Sigma) * Q)
                          \div Sigma) * epsilon)],
           Len(Ds) + 1)

\* ------------------------------------------------ per-bin loss and gradient
\* df: the reflection table; idx: the index set of df.loc[idxes]

\* the groups of df.groupby("centric"): key -> index set
groupby_centric(df, idx) ==
  [c \in {df[r].centric : r \in idx} |-> {r \in idx : df[r].centric = c}]

\* the two entries of the tuple exchanged
mlf_func_swapped(c, Fo, varFo, Fcs, Ds, S, epsilon) ==
  IF c = 0 THEN mlf_centric(Fo, varFo, Fcs, Ds, S, epsilon)
           ELSE mlf_acentric(Fo, varFo, Fcs, Ds, S, epsilon)

\* func = (mlf_acentric, mlf_centric); func[c]
mlf_func(c, Fo, varFo, Fcs, Ds, S, epsilon) ==
  IF c = 0 THEN mlf_acentric(Fo, varFo, Fcs, Ds, S, epsilon)
           ELSE mlf_centric(Fo, varFo, Fcs, Ds, S, epsilon)

\* func = (deriv_mlf_wrt_D_S_acentric, deriv_mlf_wrt_D_S_centric); func[c]
deriv_func(c, Fo, varFo, Fcs, Ds, S, epsilon) ==
  IF c = 0 THEN deriv_mlf_wrt_D_S_acentric(Fo, varFo, Fcs, Ds, S, epsilon)
           ELSE deriv_mlf_wrt_D_S_centric(Fo, varFo, Fcs, Ds, S, epsilon)

\* func = (fom_acentric, fom_centric); func[c]
fom_func(c, Fo, varFo, Fcs, Ds, S, epsilon) ==
  IF c = 0 THEN fom_acentric(Fo, varFo, Fcs, Ds, S, epsilon)
           ELSE fom_centric(Fo, varFo, Fcs, Ds, S, epsilon)

\* Fcs = [g["FC{}".format(i)] for i in range(len(Ds))]
FcsOf(row, Ds) == SubSeq(row.FCs, 1, Len(Ds))

mlf(df, idx, Ds, S) ==
  LET grp == groupby_centric(df, idx)
      part == [c \in DOMAIN grp |->
                 SumOver([r \in grp[c] |->
                            mlf_func(c, df[r].FP, df[r].SIGFP * df[r].SIGFP,
                                     FcsOf(df[r], Ds), Ds, S, df[r].epsilon)],
                         grp[c])]
  IN SumOver(part, DOMAIN grp)

\* ret.append(func[c](...)) for every group; return sum(ret)
deriv_mlf_wrt_D_S(df, idx, Ds, S) ==
  LET grp == groupby_centric(df, idx)
      ret == [c \in DOMAIN grp |->
                SumVecOver([r \in grp[c] |->
                              deriv_func(c, df[r].FP, df[r].SIGFP * df[r].SIGFP,
                                         FcsOf(df[r], Ds), Ds, S, df[r].epsilon)],
                           grp[c], Len(Ds) + 1)]
  IN SumVecOver(ret, DOMAIN grp, Len(Ds) + 1)

\* ------------------------------------------------------------- input data
\* The reflection table main() holds at line 323 (after the inner joins,
\* the scaling of FC0.. and the FC total), plus epsilon and centric
\* (lines 324-325).  Init draws it from the bounded family below.
CatFC0 == << <<3, 4>>, <<-5, 12>>, <<8, -6>>, <<0, -10>>, <<7, 0>>, <<-6, -8>>, <<12, 5>> >>
CatFCk == << <<2, 1>>, <<-1, 3>>, <<0, -2>>, <<3, 0>>, <<-2, -2>> >>

InFCs(r, ds) ==
  [k \in 1..NModels |->
     IF k = 1 THEN CatFC0[((r - 1) % Len(CatFC0)) + 1]
              ELSE CatFCk[((r + ds + k) % Len(CatFCk)) + 1]]

RECURSIVE SumFC(_, _)
\* hkldata.df["FC"] = 0j; for i in range(nmodels): FC += FC{i}
SumFC(Fcs, k) ==
  IF k > Len(Fcs) THEN <<0, 0>> ELSE CAdd(Fcs[k], SumFC(Fcs, k + 1))

TotalFC(Fcs) == SumFC(Fcs, 1)

InFP(r, ds) == Max2(1, ISqrt(CNorm2(TotalFC(InFCs(r, ds)))) + ((r * ds) % 3) - 1)

ZeroCplx == [amp |-> 0, ph |-> <<1, 0>>]

InRow(r, ds, kres, cen) ==
  [FP |-> InFP(r, ds),
   SIGFP |-> 1 + (r % 2),
   FCs |-> InFCs(r, ds),
   FC |-> TotalFC(InFCs(r, ds)),
   epsilon |-> 1 + ((r \div 3) % 2),
   centric |-> cen,
   dstar2 |-> ((r * kres) % 5) + 1,
   bin |-> 0,
   FOM |-> 0, FWT |-> ZeroCplx, DELFWT |-> ZeroCplx]

\* ------------------------------------------------------ resolution binner
\* position of reflection r when the table is ordered by 1/d^2
RankOf(df, r) ==
  Cardinality({q \in DOMAIN df :
                 \/ df[q].dstar2 < df[r].dstar2
                 \/ df[q].dstar2 = df[r].dstar2 /\ q < r})

\* as-equal-as-possible counts: the first n mod nb bins hold one more
BinSize(n, nb, b) == (n \div nb) + (IF b <= n % nb THEN 1 ELSE 0)

\* the last position of the previous bin taken as the start
BinStart_inclusive_end(n, nb, b) ==
  IF b = 1 THEN 0 ELSE (b - 1) * (n \div nb) + Min2(b - 1, n % nb) - 1

RECURSIVE BinStart(_, _, _)
BinStart(n, nb, b) ==
  IF b = 1 THEN 0 ELSE BinStart(n, nb, b - 1) + BinSize(n, nb, b - 1)

Range(sq) == {sq[j] : j \in DOMAIN sq}

\* the stored (bin index, reflection indices) pairs, indices in 1/d^2 order
BinIndices(df, nb) ==
  LET n == Cardinality(DOMAIN df)
  IN [b \in 1..nb |->
        <<b, [j \in 1..BinSize(n, nb, b) |->
                CHOOSE r \in DOMAIN df : RankOf(df, r) = BinStart(n, nb, b) + j - 1]>>]

\* the bin column: every stored pair labels its reflections with its index
\* (0: not labelled)
BinAssign(df, nb) ==
  LET bi == BinIndices(df, nb)
      of(r) == {b \in 1..nb : r \in Range(bi[b][2])}
  IN [r \in DOMAIN df |->
        IF of(r) = {} THEN 0 ELSE CHOOSE b \in of(r) : \A b2 \in of(r) : b2 <= b]

\* the bin table after setup_binning: the resolution limits of every bin,
\* held as 1/d^2 (d_min is the largest 1/d^2 of the bin)
BinLimits(df, nb) ==
  LET bi == BinIndices(df, nb)
      keys(b) == {df[r].dstar2 : r \in Range(bi[b][2])}
  IN [b \in 1..nb |->
        [d_min |-> IF keys(b) = {} THEN 0
                   ELSE CHOOSE k \in keys(b) : \A k2 \in keys(b) : k2 <= k,
         d_max |-> IF keys(b) = {} THEN 0
                   ELSE CHOOSE k \in keys(b) : \A k2 \in keys(b) : k2 >= k,
         D |-> <<>>, S |-> 0]]

\* ------------------------------------------------ numpy statistics helpers
\* n * sum(x*y) - sum(x) * sum(y) over the index set I
CoMoment(xs, ys, I) ==
  Cardinality(I) * SumOver([j \in I |-> xs[j] * ys[j]], I)
    - SumOver(xs, I) * SumOver(ys, I)

\* numpy.corrcoef(x, y)[1,0], fixed-point
corrcoef(xs, ys, I) ==
  ((CoMoment(xs, ys, I) \div ISqrt(CoMoment(xs, xs, I))) * Q)
     \div ISqrt(CoMoment(ys, ys, I))

\* numpy.var(z): z in 1/Q, the result in 1/Q
var(zs, I) == CoMoment(zs, zs, I) \div (Cardinality(I) * Cardinality(I) * Q)

\* |FC| of a row, in 1/Q
AbsFC(row) == ISqrt(Q * Q * CNorm2(row.FC))

\* the statistics of lines 191-195 are defined (no division by zero)
Estimable(df, idx) ==
  /\ idx # {}
  /\ CoMoment([r \in idx |-> Q * df[r].FP], [r \in idx |-> Q * df[r].FP], idx) > 0
  /\ CoMoment([r \in idx |-> AbsFC(df[r])], [r \in idx |-> AbsFC(df[r])], idx) > 0

\* ------------------------------------------------- determine_mlf_params
RECURSIVE Ones(_)
\* the columns D, D1, .. D(n-1) of one bin, every one set to 1.
Ones(n) == IF n = 0 THEN <<>> ELSE Append(Ones(n - 1), Q)

\* lines 185-189: the default parameters of every bin
DefaultParams(bdf, nmodels) ==
  [b \in DOMAIN bdf |-> [bdf[b] EXCEPT !.D = Ones(nmodels), !.S = 10000 * Q]]

\* the variance of FP - FC, D left out
InitialGuess_var_unscaled(df, idx) ==
  LET FC == [r \in idx |-> AbsFC(df[r])]
      FP == [r \in idx |-> Q * df[r].FP]
      D == corrcoef(FP, FC, idx)
  IN <<D, var([r \in idx |-> FP[r] - FC[r]], idx)>>

\* lines 191-195: <<D, S>> of one bin from the rows idx
InitialGuess(df, idx) ==
  LET FC == [r \in idx |-> AbsFC(df[r])]
      FP == [r \in idx |-> Q * df[r].FP]
      D == corrcoef(FP, FC, idx)
  IN <<D, var([r \in idx |-> FP[r] - (D * FC[r]) \div Q], idx)>>

\* x0 = Ds + [S]
ParamVector(brow) == Append(brow.D, brow.S)
VecDs(x) == SubSeq(x, 1, Len(x) - 1)
VecS(x) == x[Len(x)]

\* the loss of the whole table instead of df.loc[idxes]
target_whole_table(df, idx, x) == mlf(df, DOMAIN df, VecDs(x), VecS(x))

\* def target(x): mlf(hkldata.df.loc[idxes], x[:-1], x[-1])
target(df, idx, x) == mlf(df, idx, VecDs(x), VecS(x))
\* def grad(x): deriv_mlf_wrt_D_S(hkldata.df.loc[idxes], x[:-1], x[-1])
grad(df, idx, x) == deriv_mlf_wrt_D_S(df, idx, VecDs(x), VecS(x))

\* the loss at x is a finite number (every log argument is positive)
FiniteAt(df, idx, x) ==
  \A r \in idx :
    /\ df[r].FP > 0
    /\ IF df[r].centric = 0
       THEN Sigma_acentric(df[r].SIGFP * df[r].SIGFP, VecS(x), df[r].epsilon) > 0
       ELSE Sigma_centric(df[r].SIGFP * df[r].SIGFP, VecS(x), df[r].epsilon) > 0

DStep == Q \div 20
SStep == Q \div 2
StepOf(x, i) == IF i < Len(x) THEN DStep ELSE SStep

RECURSIVE MinimizeIter(_, _, _, _)
\* scipy.optimize.minimize(fun=target, x0=x0, jac=grad).x: a deterministic
\* descent that uses the loss and its gradient and accepts a step only when
\* the loss is finite and decreases
MinimizeIter(df, idx, x, k) ==
  IF k = 0 THEN x
  ELSE LET g == grad(df, idx, x)
           x2 == Array([i \in 1..Len(x) |-> x[i] - Sgn(g[i]) * StepOf(x, i)], Len(x))
       IN IF x2 = x \/ ~FiniteAt(df, idx, x2)
             \/ target(df, idx, x2) >= target(df, idx, x)
          THEN x
          ELSE MinimizeIter(df, idx, x2, k - 1)

minimize(df, idx, x0) == MinimizeIter(df, idx, x0, MaxIter)

\* the parameters read from the row before the bin's own
FitInput_prev_row(bdf, i_bin) == ParamVector(bdf[IF i_bin > 1 THEN i_bin - 1 ELSE i_bin])

\* lines 201-206: the parameters of bin i_bin the fit starts from
FitInput(bdf, i_bin) == ParamVector(bdf[i_bin])

\* res.success: the descent came to rest within the iteration limit
minimize_success(df, idx, x0) ==
  MinimizeIter(df, idx, x0, MaxIter + 1) = MinimizeIter(df, idx, x0, MaxIter)

\* the initial guess kept when the optimizer reports no convergence
FitResult_fallback(df, idx, x0) ==
  IF minimize_success(df, idx, x0) THEN minimize(df, idx, x0) ELSE x0

\* lines 207-225: res.x of the fit of the rows idx started at x0
FitResult(df, idx, x0) == minimize(df, idx, x0)

\* S assigned to the whole column instead of the slot of i_bin
FitWrite_S_column(bdf, i_bin, res_x) ==
  [j \in DOMAIN bdf |->
     [bdf[j] EXCEPT !.D = IF j = i_bin THEN VecDs(res_x) ELSE @,
                    !.S = VecS(res_x)]]

\* lines 228-231: res.x written to the slots of bin i_bin
FitWrite(bdf, i_bin, res_x) ==
  [bdf EXCEPT ![i_bin].D = VecDs(res_x), ![i_bin].S = VecS(res_x)]

\* ------------------------------------------------------------ synthesizer
\* the acentric FWT expression used for DELFWT
DELFWT_of_doubled(m, FoQ, DFc, expip) == [amp |-> (2 * m * FoQ) \div Q - DFc, ph |-> expip]

\* (m * Fo - DFc) * expip
DELFWT_of(m, FoQ, DFc, expip) == [amp |-> (m * FoQ) \div Q - DFc, ph |-> expip]

\* the branches of lines 377-380 exchanged
FWT_of_swapped(c, m, FoQ, DFc, expip) ==
  IF c = 0 THEN [amp |-> (m * FoQ) \div Q, ph |-> expip]
           ELSE [amp |-> (2 * m * FoQ) \div Q - DFc, ph |-> expip]

\* lines 377-380
FWT_of(c, m, FoQ, DFc, expip) ==
  IF c = 0 THEN [amp |-> (2 * m * FoQ) \div Q - DFc, ph |-> expip]
           ELSE [amp |-> (m * FoQ) \div Q, ph |-> expip]

\* phic = numpy.angle(g2.FC); expip = cos(phic) + 1j * sin(phic)
expip_of(row) == Angle(row.FC)

\* the row with its FC column overwritten by the synthesis as well
SynthRow_writes_FC(row, c, Ds, S) ==
  LET Fcs == FcsOf(row, Ds)
      m == fom_func(c, row.FP, row.SIGFP * row.SIGFP, Fcs, Ds, S, row.epsilon)
      DFc == calc_DFc(Ds, Fcs)
  IN [row EXCEPT !.FOM = m,
                 !.FC = sum_Fc(Ds, Fcs),
                 !.DELFWT = DELFWT_of(m, Q * row.FP, DFc, expip_of(row)),
                 !.FWT = FWT_of(c, m, Q * row.FP, DFc, expip_of(row))]

\* lines 363-380 for one row of the group with key c
SynthRow(row, c, Ds, S) ==
  LET Fcs == FcsOf(row, Ds)
      m == fom_func(c, row.FP, row.SIGFP * row.SIGFP, Fcs, Ds, S, row.epsilon)
      DFc == calc_DFc(Ds, Fcs)
  IN [row EXCEPT !.FOM = m,
                 !.DELFWT = DELFWT_of(m, Q * row.FP, DFc, expip_of(row)),
                 !.FWT = FWT_of(c, m, Q * row.FP, DFc, expip_of(row))]

\* the D values always read from the first row of the bin table
SynthDs_first_row(bdf, b) == bdf[1].D

\* Ds and S the synthesizer reads for bin b (lines 355-356)
SynthDs(bdf, b) == bdf[b].D
SynthS(bdf, b) == bdf[b].S

\* the table after the group loop of lines 362-380 over df.loc[idxes]
SynthTable(df, idx, Ds, S) ==
  LET grp == groupby_centric(df, idx)
  IN [r \in DOMAIN df |->
        IF \E c \in DOMAIN grp : r \in grp[c]
        THEN SynthRow(df[r], CHOOSE c \in DOMAIN grp : r \in grp[c], Ds, S)
        ELSE df[r]]

\* groupby(sort=False) yields the keys in order of first appearance; the
\* key of the last group of df.loc[idxes] (idxes a non-empty sequence)
LastGroupKey(df, idxes) ==
  LET first == df[idxes[1]].centric
  IN IF \E j \in DOMAIN idxes : df[idxes[j]].centric # first
     THEN 1 - first ELSE first

Mean(f, I) == SumOver(f, I) \div Cardinality(I)

\* line 382-386: the row written to the log; Fo, Fc and DFc are the local
\* arrays left by the last group the loop body ran for
LogRow(df, bdf, b, idx, loc) ==
  LET grp == groupby_centric(df, idx)
      Ds == SynthDs(bdf, b)
      S == SynthS(bdf, b)
      fom(c) == IF c \in DOMAIN grp
                THEN Mean([r \in grp[c] |->
                            fom_func(c, df[r].FP, df[r].SIGFP * df[r].SIGFP,
                                     FcsOf(df[r], Ds), Ds, S, df[r].epsilon)],
                          grp[c])
                ELSE 0
      nrefs(c) == IF c \in DOMAIN grp THEN Cardinality(grp[c]) ELSE 0
  IN [bin |-> b,
      d_min |-> bdf[b].d_min, d_max |-> bdf[b].d_max,
      n_a |-> nrefs(0), n_c |-> nrefs(1),
      Mn_Fo2 |-> Ln(Q * Mean([r \in loc.idx |-> df[r].FP * df[r].FP], loc.idx)),
      Mn_Fc2 |-> Ln(Q * Mean([r \in loc.idx |-> CNorm2(df[r].FC)], loc.idx)),
      Mn_DFc2 |-> Ln(Mean([r \in loc.idx |->
                             (calc_DFc(loc.Ds, FcsOf(df[r], loc.Ds))
                              * calc_DFc(loc.Ds, FcsOf(df[r], loc.Ds))) \div Q],
                          loc.idx)),
      log_S |-> Ln(S), FOM_a |-> fom(0), FOM_c |-> fom(1), Ds |-> Ds]

\* ------------------------------------------------------------------ state
VARIABLES
  df,               \* hkldata.df: the reflection table
  binned_df,        \* hkldata.binned_df: the bin table
  bin_and_indices,  \* what hkldata.binned() enumerates
  pc,               \* position in main / determine_mlf_params
  it,               \* position of the running binned() enumeration
  loc,              \* the local arrays Fo, Fc, DFc of main's synthesis loop
  ofs,              \* the rows written to the log file
  nwrite,           \* per reflection: number of writes of its output columns
  fitted,           \* the bins whose fit was written back, in order
  inflight,         \* fits handed to a worker and not yet written back
  sts,              \* main: the atomic models read from --model (cell, space group)
  logmsgs,          \* the lines written with logger.write (warnings, bin statistics)
  asus,             \* the arrays (AsuData) still to be merged into hkldata.df
  args,             \* the arguments of a function called on its own
  ret               \* its return value

\* what the estimator and the synthesizer do not touch
aux == <<sts, logmsgs, asus, args, ret>>

vars == <<df, binned_df, bin_and_indices, pc, it, loc, ofs, nwrite, fitted, inflight,
          sts, logmsgs, asus, args, ret>>

NoValue == [defined |-> FALSE]

\* one cell and one space group for every model: nothing to reset
SameModels == [k \in 1..(NModels - 1) |-> [cell |-> "P1", sg |-> "G1"]]

\* the input columns of a row
InputCols(row) ==
  [FP |-> row.FP, SIGFP |-> row.SIGFP, FCs |-> row.FCs, FC |-> row.FC,
   epsilon |-> row.epsilon, centric |-> row.centric, dstar2 |-> row.dstar2]

\* input file i: its data set and its resolution order
InData(i) == 1 + ((i - 1) \div 2)
InRes(i) == 1 + ((i - 1) % 2)

InputTables ==
  {[r \in Refl |-> InRow(r, InData(i), InRes(i), cen[r])] :
      i \in 1..NInputs, cen \in [Refl -> {0, 1}]}

\* the tables whose bins all have defined initial estimates
EstimableTables ==
  {t \in InputTables :
     \A b \in Bins : Estimable(t, Range(BinIndices(t, NBins)[b][2]))}

Init ==
  /\ df \in EstimableTables
  /\ binned_df = <<>>
  /\ bin_and_indices = <<>>
  /\ pc = "setup_binning"
  /\ it = 0
  /\ loc = [defined |-> FALSE, idx |-> {}, Ds |-> <<>>]
  /\ ofs = <<>>
  /\ nwrite = [r \in Refl |-> 0]
  /\ fitted = <<>>
  /\ inflight = {}
  /\ sts = SameModels
  /\ logmsgs = <<>>
  /\ asus = <<>>
  /\ args = NoValue
  /\ ret = NoValue

\* an enumeration that stays at its first pair
binned_at_first(k) == bin_and_indices[1]

\* hkldata.binned(): the pair the enumeration is at
binned_at(k) == bin_and_indices[k]

\* line 326: hkldata.setup_binning(n_bins=args.nbins)
SetupBinning ==
  /\ pc = "setup_binning"
  /\ df' = [r \in DOMAIN df |-> [df[r] EXCEPT !.bin = BinAssign(df, NBins)[r]]]
  /\ binned_df' = BinLimits(df, NBins)
  /\ bin_and_indices' = BinIndices(df, NBins)
  /\ pc' = "defaults"
  /\ UNCHANGED <<it, loc, ofs, nwrite, fitted, inflight, aux>>

\* lines 185-189
SetDefaults ==
  /\ pc = "defaults"
  /\ binned_df' = DefaultParams(binned_df, NModels)
  /\ pc' = "init_est"
  /\ it' = 1
  /\ UNCHANGED <<df, bin_and_indices, loc, ofs, nwrite, fitted, inflight, aux>>

\* the loop of lines 190-195, one bin per step
InitialEstimate ==
  /\ pc = "init_est"
  /\ LET i_bin == binned_at(it)[1]
         idxes == binned_at(it)[2]
         est == InitialGuess(df, Range(idxes))
     IN binned_df' = [binned_df EXCEPT ![i_bin].D[1] = est[1], ![i_bin].S = est[2]]
  /\ IF it < Len(bin_and_indices)
     THEN it' = it + 1 /\ pc' = pc
     ELSE it' = 1 /\ pc' = "fit"
  /\ UNCHANGED <<df, bin_and_indices, loc, ofs, nwrite, fitted, inflight, aux>>

\* a bin whose optimizer run did not converge is fitted again
FitBin_retry ==
  /\ pc = "fit"
  /\ inflight = {}
  /\ it <= Len(bin_and_indices)
  /\ LET i_bin == binned_at(it)[1]
         idxes == binned_at(it)[2]
         x0 == FitInput(binned_df, i_bin)
     IN /\ binned_df' = FitWrite(binned_df, i_bin, FitResult(df, Range(idxes), x0))
        /\ fitted' = Append(fitted, i_bin)
        /\ it' = IF minimize_success(df, Range(idxes), x0) THEN it + 1 ELSE it
  /\ UNCHANGED <<df, bin_and_indices, pc, loc, ofs, nwrite, inflight, aux>>

\* the loop of lines 200-231, one bin per step
FitBin ==
  /\ pc = "fit"
  /\ inflight = {}
  /\ it <= Len(bin_and_indices)
  /\ LET i_bin == binned_at(it)[1]
         idxes == binned_at(it)[2]
     IN /\ binned_df' = FitWrite(binned_df, i_bin,
                                 FitResult(df, Range(idxes), FitInput(binned_df, i_bin)))
        /\ fitted' = Append(fitted, i_bin)
  /\ it' = it + 1
  /\ UNCHANGED <<df, bin_and_indices, pc, loc, ofs, nwrite, inflight, aux>>

\* the synthesis entered without waiting for the fits
FitsComplete_no_wait == TRUE

\* every bin has been fitted and written back
FitsComplete == Len(fitted) = Len(bin_and_indices) /\ inflight = {}

\* lines 331-351: determine_mlf_params has returned; the log header and
\* the placeholder columns
SynthInit ==
  /\ pc = "fit"
  /\ FitsComplete
  /\ df' = [r \in DOMAIN df |->
              [df[r] EXCEPT !.FWT = ZeroCplx, !.DELFWT = ZeroCplx, !.FOM = 0]]
  /\ pc' = "synth"
  /\ it' = 1
  /\ UNCHANGED <<binned_df, bin_and_indices, loc, ofs, nwrite, fitted, inflight, aux>>

\* the loop of lines 352-386, one bin per step
SynthBin ==
  /\ pc = "synth"
  /\ LET i_bin == binned_at(it)[1]
         idxes == binned_at(it)[2]
         Ds == SynthDs(binned_df, i_bin)
         S == SynthS(binned_df, i_bin)
         newloc == IF Len(idxes) = 0 THEN loc
                   ELSE [defined |-> TRUE,
                         idx |-> groupby_centric(df, Range(idxes))[LastGroupKey(df, idxes)],
                         Ds |-> Ds]
     IN /\ df' = SynthTable(df, Range(idxes), Ds, S)
        /\ nwrite' = [r \in DOMAIN nwrite |->
                        IF r \in Range(idxes) THEN nwrite[r] + 1 ELSE nwrite[r]]
        /\ loc' = newloc
        /\ IF newloc.defined
           THEN /\ ofs' = Append(ofs, LogRow(df, binned_df, i_bin, Range(idxes), newloc))
                /\ IF it < Len(bin_and_indices)
                   THEN it' = it + 1 /\ pc' = pc
                   ELSE it' = it /\ pc' = "done"
           ELSE \* NameError: Fo is not defined
                /\ ofs' = ofs /\ it' = it /\ pc' = "crashed"
  /\ UNCHANGED <<binned_df, bin_and_indices, fitted, inflight, aux>>

Next ==
  \/ SetupBinning
  \/ SetDefaults
  \/ InitialEstimate
  \/ FitBin
  \/ SynthInit
  \/ SynthBin

Spec == Init /\ [][Next]_vars

\* --------------------------------------------- the fits as a worker pool
\* The loop body of lines 201-231 run by one worker per bin: a worker is
\* given the reflections and the initial parameters of its bin, and its
\* result is written back keyed by the bin index, in any order.
WorkerStart(k) ==
  /\ pc = "fit"
  /\ k \in DOMAIN bin_and_indices
  /\ \A w \in inflight : w.i_bin # binned_at(k)[1]
  /\ \A j \in DOMAIN fitted : fitted[j] # binned_at(k)[1]
  /\ inflight' = inflight \cup
                   {[i_bin |-> binned_at(k)[1], idxes |-> binned_at(k)[2],
                     x0 |-> FitInput(binned_df, binned_at(k)[1])]}
  /\ UNCHANGED <<df, binned_df, bin_and_indices, pc, it, loc, ofs, nwrite, fitted, aux>>

WorkerFinish(w) ==
  /\ pc = "fit"
  /\ w \in inflight
  /\ binned_df' = FitWrite(binned_df, w.i_bin, FitResult(df, Range(w.idxes), w.x0))
  /\ fitted' = Append(fitted, w.i_bin)
  /\ inflight' = inflight \ {w}
  /\ UNCHANGED <<df, bin_and_indices, pc, it, loc, ofs, nwrite, aux>>

ParNext ==
  \/ SetupBinning
  \/ SetDefaults
  \/ InitialEstimate
  \/ \E k \in Bins : WorkerStart(k)
  \/ \E w \in inflight : WorkerFinish(w)
  \/ SynthInit
  \/ SynthBin

ParSpec == Init /\ [][ParNext]_vars

\* ================================================================ claims
BinIds == {bin_and_indices[k][1] : k \in DOMAIN bin_and_indices}
BinRows(b) == Range(bin_and_indices[CHOOSE k \in DOMAIN bin_and_indices :
                                      bin_and_indices[k][1] = b][2])
Written == {r \in DOMAIN df : nwrite[r] > 0}
HasParams == pc \in {"init_est", "fit", "synth", "done"}
Restrict(f, I) == [x \in I |-> f[x]]

\* C1: the index sets binned() yields are pairwise disjoint and without
\* repeats, their union is the whole reflection table, and every reflection
\* carries exactly one bin index, that of the one set that holds it.
C1_BinsPartition ==
  pc # "setup_binning" =>
    /\ \A j, k \in DOMAIN bin_and_indices :
         j # k => Range(bin_and_indices[j][2]) \cap Range(bin_and_indices[k][2]) = {}
    /\ \A k \in DOMAIN bin_and_indices :
         Cardinality(Range(bin_and_indices[k][2])) = Len(bin_and_indices[k][2])
    /\ UNION {Range(bin_and_indices[k][2]) : k \in DOMAIN bin_and_indices} = DOMAIN df
    /\ \A r \in DOMAIN df : \A k \in DOMAIN bin_and_indices :
         (r \in Range(bin_and_indices[k][2])) <=> (df[r].bin = bin_and_indices[k][1])

C1_Witness ==
  /\ pc = "defaults"
  /\ \E j, k \in DOMAIN bin_and_indices :
       /\ Len(bin_and_indices[j][2]) > Len(bin_and_indices[k][2])
       /\ Len(bin_and_indices[k][2]) > 0

\* the loss / gradient of one reflection through the variant of its own flag
RowLoss(row, Ds, S) ==
  IF row.centric = 0
  THEN mlf_acentric(row.FP, row.SIGFP * row.SIGFP, FcsOf(row, Ds), Ds, S, row.epsilon)
  ELSE mlf_centric(row.FP, row.SIGFP * row.SIGFP, FcsOf(row, Ds), Ds, S, row.epsilon)

RowGrad(row, Ds, S) ==
  IF row.centric = 0
  THEN deriv_mlf_wrt_D_S_acentric(row.FP, row.SIGFP * row.SIGFP, FcsOf(row, Ds), Ds, S, row.epsilon)
  ELSE deriv_mlf_wrt_D_S_centric(row.FP, row.SIGFP * row.SIGFP, FcsOf(row, Ds), Ds, S, row.epsilon)

\* C2: for every bin, at the parameters the bin holds, the loss mlf is the sum
\* over the bin's reflections of the acentric loss for centric = 0 and of the
\* centric loss for centric = 1, every reflection counted once; the gradient
\* deriv_mlf_wrt_D_S is the same sum of the per-reflection gradients of the
\* same variant; and the loss is the acentric sub-sum plus the centric sub-sum.
C2_OneVariantPerReflection ==
  HasParams =>
    \A b \in BinIds :
      LET idx == BinRows(b)
          Ds == binned_df[b].D
          S == binned_df[b].S
          ac == {r \in idx : df[r].centric = 0}
          ce == {r \in idx : df[r].centric = 1}
          loss == [r \in idx |-> RowLoss(df[r], Ds, S)]
      IN /\ mlf(df, idx, Ds, S) = SumOver(loss, idx)
         /\ mlf(df, idx, Ds, S) = SumOver(loss, ac) + SumOver(loss, ce)
         /\ deriv_mlf_wrt_D_S(df, idx, Ds, S)
              = SumVecOver([r \in idx |-> RowGrad(df[r], Ds, S)], idx, Len(Ds) + 1)

C2_Witness ==
  /\ pc = "fit"
  /\ Len(fitted) >= 1
  /\ \E r, q \in BinRows(fitted[1]) : df[r].centric = 0 /\ df[q].centric = 1

\* C3: every written acentric reflection holds FWT = (2 FOM Fo - DFc) e^(i phic)
\* and every written centric reflection FWT = (FOM Fo) e^(i phic), where FOM is
\* the reflection's FOM column, DFc the combined amplitude with its bin's
\* parameters and phic the calculated phase the synthesizer applies to the
\* reflection (line 366).
C3_FWT_ByClass ==
  \A r \in Written :
    LET Ds == binned_df[df[r].bin].D
        DFc == calc_DFc(Ds, FcsOf(df[r], Ds))
        m == df[r].FOM
        FoQ == Q * df[r].FP
    IN /\ df[r].centric = 0 =>
            SameCplx(df[r].FWT, [amp |-> (2 * m * FoQ) \div Q - DFc, ph |-> expip_of(df[r])])
       /\ df[r].centric = 1 =>
            SameCplx(df[r].FWT, [amp |-> (m * FoQ) \div Q, ph |-> expip_of(df[r])])

C3_Witness ==
  /\ pc = "done"
  /\ \E r, q \in Written :
       /\ df[r].centric = 0 /\ df[q].centric = 1
       /\ df[r].FWT.amp # 0 /\ df[q].FWT.amp # 0
       /\ df[r].FWT.amp # (df[r].FOM * Q * df[r].FP) \div Q

\* C4: every written reflection of either class holds
\* DELFWT = (FOM Fo - DFc) e^(i phic), with the FOM column of the reflection,
\* the DFc of its bin's parameters and the phase its FWT carries.
C4_DELFWT_BothClasses ==
  \A r \in Written :
    LET Ds == binned_df[df[r].bin].D
        DFc == calc_DFc(Ds, FcsOf(df[r], Ds))
        m == df[r].FOM
        FoQ == Q * df[r].FP
    IN /\ df[r].DELFWT.amp = (m * FoQ) \div Q - DFc
       /\ df[r].DELFWT.ph = df[r].FWT.ph
       /\ df[r].centric = 1 => df[r].FWT.amp - df[r].DELFWT.amp = DFc

C4_Witness ==
  /\ pc = "done"
  /\ \E r, q \in Written :
       /\ df[r].centric = 0 /\ df[q].centric = 1
       /\ df[r].DELFWT.amp # 0 /\ df[q].DELFWT.amp # 0
       /\ df[r].FOM # 0 /\ df[q].FOM # 0

\* the D-weighted combined structure factor D0 (Fc0 + D1 Fc1 + ...)
WeightedFc(Ds, Fcs) == CScale(Ds[1], sum_Fc(Ds, Fcs))

\* C5: the phase applied to FWT and DELFWT of a reflection is the phase of the
\* D-weighted combined structure factor built with the fitted D of its bin.
C5_PhaseOfWeightedSum ==
  \A r \in Written :
    LET Ds == binned_df[df[r].bin].D
        phi == Angle(WeightedFc(Ds, FcsOf(df[r], Ds)))
    IN /\ SameCplx(df[r].FWT, [amp |-> df[r].FWT.amp, ph |-> phi])
       /\ SameCplx(df[r].DELFWT, [amp |-> df[r].DELFWT.amp, ph |-> phi])

\* C6: when the synthesis is over every reflection has had its FOM, FWT and
\* DELFWT written exactly once, and they are the values computed with the D, S
\* of the bin that holds the reflection and the FOM variant of its own flag.
C6_OutputsFromOwnBin ==
  pc = "done" =>
    \A r \in DOMAIN df :
      LET b == df[r].bin
          Ds == binned_df[b].D
          S == binned_df[b].S
          varFo == df[r].SIGFP * df[r].SIGFP
          m == IF df[r].centric = 0
               THEN fom_acentric(df[r].FP, varFo, FcsOf(df[r], Ds), Ds, S, df[r].epsilon)
               ELSE fom_centric(df[r].FP, varFo, FcsOf(df[r], Ds), Ds, S, df[r].epsilon)
          DFc == calc_DFc(Ds, FcsOf(df[r], Ds))
      IN /\ nwrite[r] = 1
         /\ r \in BinRows(b)
         /\ df[r].FOM = m
         /\ df[r].DELFWT.amp = (m * Q * df[r].FP) \div Q - DFc
         /\ df[r].FWT.amp = IF df[r].centric = 0
                            THEN (2 * m * Q * df[r].FP) \div Q - DFc
                            ELSE (m * Q * df[r].FP) \div Q

C6_Witness ==
  /\ pc = "done"
  /\ \E b, c \in BinIds : binned_df[b].D # binned_df[c].D /\ binned_df[b].S # binned_df[c].S
  /\ \A r \in DOMAIN df : df[r].FOM # 0

\* C7: a step that computes the outputs of a reflection, or enters the
\* synthesis, is taken only when every bin's fit has been written back, and it
\* writes no bin parameter; a step that writes a bin parameter is taken only
\* while no reflection's output has been computed.
C7_SynthesisAfterAllFits ==
  [][/\ (nwrite' # nwrite \/ (pc' = "synth" /\ pc # "synth")) =>
          /\ Range(fitted) = BinIds
          /\ inflight = {}
          /\ binned_df' = binned_df
          /\ fitted' = fitted
     /\ (binned_df' # binned_df \/ fitted' # fitted) =>
          /\ Written = {}
          /\ pc \notin {"synth", "done"}]_vars

C7_Witness ==
  /\ pc = "synth"
  /\ Written # {}
  /\ Written # DOMAIN df
  /\ \E b \in BinIds : binned_df[b].D[2] # Q

\* C8: the step that fits bin i writes the result of the fit of bin i's
\* reflections alone, started from bin i's own parameters, into bin i's D,
\* D1.., S slots; the rows of all other bins and the resolution limits of
\* bin i are unchanged.
C8_FitTouchesOwnBinOnly ==
  [][fitted' # fitted =>
       LET b == fitted'[Len(fitted')]
           idx == BinRows(b)
           res_x == FitResult(Restrict(df, idx), idx, ParamVector(binned_df[b]))
       IN /\ \A j \in DOMAIN binned_df : j # b => binned_df'[j] = binned_df[j]
          /\ DOMAIN binned_df' = DOMAIN binned_df
          /\ binned_df'[b] = [binned_df[b] EXCEPT !.D = VecDs(res_x), !.S = VecS(res_x)]]_vars

C8_Witness ==
  /\ pc = "fit"
  /\ Len(fitted) = 1
  /\ binned_df[fitted[1]].D[2] # Q
  /\ \E b \in BinIds : b # fitted[1] /\ binned_df[b].D[2] = Q

RECURSIVE InitLoop(_, _)
\* the bin table after the loop of lines 190-195
InitLoop(bdf, k) ==
  IF k > Len(bin_and_indices) THEN bdf
  ELSE LET b == bin_and_indices[k][1]
           est == InitialGuess(df, Range(bin_and_indices[k][2]))
       IN InitLoop([bdf EXCEPT ![b].D[1] = est[1], ![b].S = est[2]], k + 1)

RECURSIVE FitLoop(_, _)
\* the bin table after the sequential loop of lines 200-231, in bin order
FitLoop(bdf, k) ==
  IF k > Len(bin_and_indices) THEN bdf
  ELSE LET b == bin_and_indices[k][1]
       IN FitLoop(FitWrite(bdf, b, FitResult(df, Range(bin_and_indices[k][2]),
                                             FitInput(bdf, b))), k + 1)

\* determine_mlf_params run sequentially on the bins of the table
SequentialTable == FitLoop(InitLoop(DefaultParams(binned_df, NModels), 1), 1)

\* C9: with the fits run by workers that complete in any order, every row a
\* worker has written back is the row the sequential loop produces for that
\* bin, and once all workers are done the bin table is the table of the
\* sequential loop.
C9_AnyCompletionOrder ==
  (HasParams /\ fitted # <<>>) =>
    LET seq == SequentialTable
    IN /\ \A b \in Range(fitted) : binned_df[b] = seq[b]
       /\ pc \in {"synth", "done"} => binned_df = seq

C9_Witness ==
  /\ pc = "done"
  /\ Len(fitted) = Len(bin_and_indices)
  /\ fitted[1] # bin_and_indices[1][1]
  /\ \E b \in BinIds : binned_df[b].D[2] # Q

\* C10: no step of the fitting (lines 185-231) or of the synthesis (lines
\* 349-386) changes an input column or the bin assignment of a reflection;
\* a fitting step leaves the whole reflection table and the resolution limits
\* of the bins unchanged; a synthesis step leaves the bin table unchanged.
C10_InputsReadOnly ==
  [][pc # "setup_binning" =>
       /\ DOMAIN df' = DOMAIN df
       /\ \A r \in DOMAIN df :
            InputCols(df'[r]) = InputCols(df[r]) /\ df'[r].bin = df[r].bin
       /\ pc' \in {"init_est", "fit"} =>
            /\ df' = df
            /\ DOMAIN binned_df' = DOMAIN binned_df
            /\ \A b \in DOMAIN binned_df :
                 /\ binned_df'[b].d_min = binned_df[b].d_min
                 /\ binned_df'[b].d_max = binned_df[b].d_max
       /\ pc' \in {"synth", "done", "crashed"} => binned_df' = binned_df]_vars

C10_Witness ==
  /\ pc = "done"
  /\ Written = DOMAIN df
  /\ \E r \in DOMAIN df : df[r].FWT.amp # 0 /\ expip_of(df[r]) # <<1, 0>>
  /\ \E b \in BinIds : binned_df[b].D[2] # Q

\* ------------------------------------------- main from the reading of models
Cells == {"P1", "P2"}
SpaceGroups == {"G1", "G2"}

\* what --model can name: every model with its own cell and space group
ModelInputs == [1..(NModels - 1) -> [cell : Cells, sg : SpaceGroups]]

\* the space group is left as read
ResetModel_keep_sg(st, st0) ==
  [cell |-> IF st.cell # st0.cell THEN st0.cell ELSE st.cell, sg |-> st.sg]

\* lines 259-264: st.cell = sts[0].cell; st.spacegroup_hm = sts[0].spacegroup_hm
ResetModel(st, st0) ==
  [cell |-> IF st.cell # st0.cell THEN st0.cell ELSE st.cell,
   sg |-> IF st.sg # st0.sg THEN st0.sg ELSE st.sg]

\* the warnings of lines 260 and 263 for one model
ResetWarnings(st, st0) ==
  (IF st.cell # st0.cell THEN <<"WARNING: resetting cell to 1st model.">> ELSE <<>>)
    \o (IF st.sg # st0.sg THEN <<"WARNING: resetting space group to 1st model.">> ELSE <<>>)

RECURSIVE AllResetWarnings(_, _)
\* the warnings of the loop over sts[1:], from model k on
AllResetWarnings(models, k) ==
  IF k > Len(models) THEN <<>>
  ELSE ResetWarnings(models[k], models[1]) \o AllResetWarnings(models, k + 1)

\* the tables main is run on from the reading of the models: the reflections
\* alternate between acentric and centric
MainTables == {t \in EstimableTables : \A r \in DOMAIN t : t[r].centric = r % 2}

InitMain ==
  /\ df \in MainTables
  /\ binned_df = <<>>
  /\ bin_and_indices = <<>>
  /\ pc = "read_models"
  /\ it = 0
  /\ loc = [defined |-> FALSE, idx |-> {}, Ds |-> <<>>]
  /\ ofs = <<>>
  /\ nwrite = [r \in Refl |-> 0]
  /\ fitted = <<>>
  /\ inflight = {}
  /\ sts \in ModelInputs
  /\ logmsgs = <<>>
  /\ asus = <<>>
  /\ args = NoValue
  /\ ret = NoValue

\* lines 258-264: for st in sts[1:]; the run goes on to line 266
CheckModels ==
  /\ pc = "read_models"
  /\ sts' = [k \in DOMAIN sts |-> IF k = 1 THEN sts[1] ELSE ResetModel(sts[k], sts[1])]
  /\ logmsgs' = logmsgs \o AllResetWarnings(sts, 2)
  /\ pc' = "setup_binning"
  /\ UNCHANGED <<df, binned_df, bin_and_indices, it, loc, ofs, nwrite, fitted, inflight,
                 asus, args, ret>>

MainNext ==
  \/ CheckModels
  \/ SetupBinning
  \/ SetDefaults
  \/ InitialEstimate
  \/ FitBin
  \/ SynthInit
  \/ SynthBin

MainSpec == InitMain /\ [][MainNext]_vars

\* --------------------------------- the figure-of-merit functions on their own
FoValues == {0, 1, 14, 60}
VarFoValues == {0, 1, 4}
D0Values == {0, Q \div 2, Q}
SValues == {Q \div 4, Q, 30 * Q}

\* arguments with Fo >= 0, DFc >= 0 and a positive Sigma
FomArgs ==
  {[Fo |-> fo, varFo |-> v, Fcs |-> InFCs(r, 1),
    Ds |-> <<d0>> \o Tail(Ones(NModels)), S |-> sp, epsilon |-> e] :
     fo \in FoValues, v \in VarFoValues, r \in Refl, d0 \in D0Values,
     sp \in SValues, e \in {1, 2}}

InitFom ==
  /\ df = <<>>
  /\ binned_df = <<>>
  /\ bin_and_indices = <<>>
  /\ pc = "call"
  /\ it = 0
  /\ loc = [defined |-> FALSE, idx |-> {}, Ds |-> <<>>]
  /\ ofs = <<>>
  /\ nwrite = <<>>
  /\ fitted = <<>>
  /\ inflight = {}
  /\ sts = <<>>
  /\ logmsgs = <<>>
  /\ asus = <<>>
  /\ args \in FomArgs
  /\ ret = NoValue

\* lines 69-72
CallFomAcentric ==
  /\ pc = "call"
  /\ ret' = [defined |-> TRUE, fn |-> "fom_acentric",
             value |-> fom_acentric(args.Fo, args.varFo, args.Fcs, args.Ds,
                                    args.S, args.epsilon)]
  /\ pc' = "returned"
  /\ UNCHANGED <<df, binned_df, bin_and_indices, it, loc, ofs, nwrite, fitted, inflight,
                 sts, logmsgs, asus, args>>

\* lines 74-77
CallFomCentric ==
  /\ pc = "call"
  /\ ret' = [defined |-> TRUE, fn |-> "fom_centric",
             value |-> fom_centric(args.Fo, args.varFo, args.Fcs, args.Ds,
                                   args.S, args.epsilon)]
  /\ pc' = "returned"
  /\ UNCHANGED <<df, binned_df, bin_and_indices, it, loc, ofs, nwrite, fitted, inflight,
                 sts, logmsgs, asus, args>>

FomNext ==
  \/ CallFomAcentric
  \/ CallFomCentric

FomSpec == InitFom /\ [][FomNext]_vars

\* ------------------------------- maps.py: calc_noise_var_from_halfmaps
\* The Fourier coefficients are complex numbers with integer parts; FSChalf,
\* FSCfull and var_noise are fixed-point (1/Q).
NHalf == 2          \* number of half-map pairs Init draws from

\* the result of an undefined floating-point operation (0/0)
NaN == -999999

CDot(a, b) == a[1] * b[1] + a[2] * b[2]

RECURSIVE CSumOver(_, _)
CSumOver(f, I) ==
  IF I = {} THEN <<0, 0>>
  ELSE LET x == CHOOSE y \in I : TRUE
       IN CAdd(f[x], CSumOver(f, I \ {x}))

\* n * Re(sum(y conj(x))) - Re(sum(y) conj(sum(x))) over the index set I:
\* n^2 times the real part of the covariance of the complex arrays
CCoMoment(xs, ys, I) ==
  Cardinality(I) * SumOver([j \in I |-> CDot(xs[j], ys[j])], I)
    - CDot(CSumOver(xs, I), CSumOver(ys, I))

\* numpy.real(numpy.corrcoef(x, y)[1,0]) of two complex arrays
corrcoef_real(xs, ys, I) ==
  LET den == ISqrt(CCoMoment(xs, xs, I) * CCoMoment(ys, ys, I))
  IN IF den = 0 THEN NaN ELSE (Q * CCoMoment(ys, xs, I)) \div den

\* numpy.var(z) of a complex array
var_complex(zs, I) ==
  (Q * CCoMoment(zs, zs, I)) \div (Cardinality(I) * Cardinality(I))

\* half of the variance of the difference
half_varn_over_2(sel1, sel2, I) ==
  var_complex([j \in I |-> CAdd(sel1[j], CScale(-1, sel2[j]))], I) \div 2

\* line 149: varn = numpy.var(sel1-sel2)/4
half_varn(sel1, sel2, I) ==
  var_complex([j \in I |-> CAdd(sel1[j], CScale(-1, sel2[j]))], I) \div 4

\* the factor 2 left out
half_fscfull_no_2(fsc) ==
  IF fsc = NaN \/ Q + fsc = 0 THEN NaN ELSE (fsc * Q) \div (Q + fsc)

\* line 153: 2*fsc/(1+fsc)
half_fscfull(fsc) ==
  IF fsc = NaN \/ Q + fsc = 0 THEN NaN ELSE (2 * fsc * Q) \div (Q + fsc)

\* bins of one coefficient are processed
half_skip_below_2(size) == size < 2

\* line 144: if sel1.size < 3
half_skip(size) == size < 3

\* the two half maps' coefficients: pair k has map 2 = map 1 + (k - 1) * noise;
\* empty: both maps are zero everywhere
HalfF1(r, empty) == IF empty THEN <<0, 0>> ELSE CatFC0[((r - 1) % Len(CatFC0)) + 1]
HalfF2(r, k, empty) ==
  IF empty THEN <<0, 0>>
  ELSE CAdd(HalfF1(r, empty), CScale(k - 1, CatFCk[(r % Len(CatFCk)) + 1]))

\* mask_and_fft_maps followed by the binning: the coefficient table with its
\* bin column
HalfTables ==
  {[r \in Refl |-> [F_map1 |-> HalfF1(r, empty), F_map2 |-> HalfF2(r, k, empty),
                    bin |-> bn[r]]] :
      k \in 1..NHalf, empty \in BOOLEAN, bn \in [Refl -> Bins]}

\* the bin table of the binning, one row per bin
HalfBinTable == [b \in Bins |-> [d_max |-> b, d_min |-> b + 1]]

\* hkldata.bin_and_limits(): (i_bin, d_max, d_min) of every row of the bin table
bin_and_limits(bdf) == [b \in DOMAIN bdf |-> <<b, bdf[b].d_max, bdf[b].d_min>>]

InitHalf ==
  /\ df \in HalfTables
  /\ binned_df = HalfBinTable
  /\ bin_and_indices = <<>>
  /\ pc = "half_columns"
  /\ it = 0
  /\ loc = [defined |-> FALSE, idx |-> {}, Ds |-> <<>>]
  /\ ofs = <<>>
  /\ nwrite = <<>>
  /\ fitted = <<>>
  /\ inflight = {}
  /\ sts = <<>>
  /\ logmsgs = <<>>
  /\ asus = <<>>
  /\ args = NoValue
  /\ ret = NoValue

\* lines 127-128: the two columns set to 0. for every bin
HalfColumns ==
  /\ pc = "half_columns"
  /\ binned_df' = [b \in DOMAIN binned_df |->
                     [d_max |-> binned_df[b].d_max, d_min |-> binned_df[b].d_min,
                      var_noise |-> 0, FSCfull |-> 0]]
  /\ pc' = "half_loop"
  /\ it' = 1
  /\ UNCHANGED <<df, bin_and_indices, loc, ofs, nwrite, fitted, inflight,
                 sts, logmsgs, asus, args, ret>>

\* the loop of lines 133-153, one bin per step
HalfBin ==
  /\ pc = "half_loop"
  /\ LET i_bin == bin_and_limits(binned_df)[it][1]
         sel == {r \in DOMAIN df : df[r].bin = i_bin}
         sel1 == [r \in sel |-> df[r].F_map1]
         sel2 == [r \in sel |-> df[r].F_map2]
         size == Cardinality(sel)
         fsc == corrcoef_real(sel1, sel2, sel)
         varn == half_varn(sel1, sel2, sel)
     IN IF half_skip(size)
        THEN /\ logmsgs' = Append(logmsgs, [line |-> "WARNING: skipping bin",
                                            bin |-> i_bin, size |-> size])
             /\ binned_df' = binned_df
        ELSE /\ logmsgs' = Append(logmsgs, [line |-> "statistics", bin |-> i_bin,
                                            size |-> size, fsc |-> fsc, varn |-> varn])
             /\ binned_df' = [binned_df EXCEPT ![i_bin].var_noise = varn,
                                               ![i_bin].FSCfull = half_fscfull(fsc)]
  /\ IF it < Len(bin_and_limits(binned_df))
     THEN it' = it + 1 /\ pc' = pc
     ELSE it' = it /\ pc' = "half_done"
  /\ UNCHANGED <<df, bin_and_indices, loc, ofs, nwrite, fitted, inflight,
                 sts, asus, args, ret>>

HalfNext ==
  \/ HalfColumns
  \/ HalfBin

HalfSpec == InitHalf /\ [][HalfNext]_vars

\* C11: once the estimator has passed its initial-estimate loop, every bin
\* that holds fewer than 3 reflections still has the default parameters
\* D = 1, D1.. = 1, S = 10000 (it is neither estimated nor optimized).
C11_SmallBinKeepsDefaults ==
  pc \in {"fit", "synth", "done"} =>
    \A b \in BinIds :
      Cardinality(BinRows(b)) < 3 =>
        binned_df[b].D = Ones(NModels) /\ binned_df[b].S = 10000 * Q

\* the models disagree, or a disagreement has been found and warned of
Mismatched ==
  \/ pc = "read_models" /\ \E k \in DOMAIN sts : sts[k] # sts[1]
  \/ logmsgs # <<>>

\* C12 as stated: when the models disagree in unit cell or space group, no
\* sigma-A parameter is fitted and no output (log row, map coefficient) is
\* produced.
C12_MismatchIsFatal ==
  Mismatched => /\ fitted = <<>>
                /\ ofs = <<>>
                /\ Written = {}

\* C12 amended: the step that compares the models writes one warning for
\* every model whose cell differs from the first model's and one for every
\* model whose space group differs, sets the cell and the space group of every
\* model to those of the first, and the run goes on to the binning; from then
\* on the models agree and are not changed.
C12_MismatchResetsAndContinues ==
  [][IF pc = "read_models"
     THEN /\ pc' = "setup_binning"
          /\ \A k \in DOMAIN sts : sts'[k] = sts[1]
          /\ Len(logmsgs') = Len(logmsgs)
                + Cardinality({k \in DOMAIN sts : sts[k].cell # sts[1].cell})
                + Cardinality({k \in DOMAIN sts : sts[k].sg # sts[1].sg})
          /\ df' = df
     ELSE /\ sts' = sts
          /\ logmsgs' = logmsgs
          /\ \A k \in DOMAIN sts : sts[k] = sts[1]]_vars

C12_Witness ==
  /\ pc = "done"
  /\ Len(logmsgs) >= 2
  /\ Len(ofs) = Len(bin_and_indices)
  /\ Written = DOMAIN df

\* the initial guess of bin b as the vector x0 = [D, 1, .., 1, S]
InitialVector(b) ==
  LET est == InitialGuess(df, BinRows(b))
  IN <<est[1]>> \o Tail(Ones(NModels)) \o <<est[2]>>

\* the loss of bin b's reflections at the parameter vector x
BinLoss(b, x) == mlf(df, BinRows(b), VecDs(x), VecS(x))

HalfSel(b) == {r \in DOMAIN df : df[r].bin = b}
StatLines == {i \in DOMAIN logmsgs : logmsgs[i].line = "statistics"}
SkipLines == {i \in DOMAIN logmsgs : logmsgs[i].line = "WARNING: skipping bin"}

\* C15: for every bin the loop has processed, with x and y the coefficients
\* of the two half maps in the bin, the logged FSChalf is the Pearson
\* correlation Re(cov(y, x)) / sqrt(var(x) var(y)), the stored var_noise is
\* var(x - y) / 4 and the stored FSCfull is 2 FSChalf / (1 + FSChalf).
C15_HalfmapStatistics ==
  \A i \in StatLines :
    LET b == logmsgs[i].bin
        I == HalfSel(b)
        n == Cardinality(I)
        x == [r \in I |-> df[r].F_map1]
        y == [r \in I |-> df[r].F_map2]
        d == [r \in I |-> <<x[r][1] - y[r][1], x[r][2] - y[r][2]>>]
        cxy == n * SumOver([r \in I |-> CDot(x[r], y[r])], I)
                 - CDot(CSumOver(x, I), CSumOver(y, I))
        cxx == n * SumOver([r \in I |-> CNorm2(x[r])], I) - CNorm2(CSumOver(x, I))
        cyy == n * SumOver([r \in I |-> CNorm2(y[r])], I) - CNorm2(CSumOver(y, I))
        cdd == n * SumOver([r \in I |-> CNorm2(d[r])], I) - CNorm2(CSumOver(d, I))
        fsc == logmsgs[i].fsc
    IN /\ fsc = IF cxx * cyy = 0 THEN NaN ELSE (Q * cxy) \div ISqrt(cxx * cyy)
       /\ binned_df[b].var_noise = ((Q * cdd) \div (n * n)) \div 4
       /\ binned_df[b].FSCfull = IF fsc = NaN THEN NaN ELSE (2 * fsc * Q) \div (Q + fsc)

C15_Witness ==
  /\ pc = "half_done"
  /\ \E i \in StatLines :
       /\ logmsgs[i].fsc # NaN /\ logmsgs[i].fsc # Q /\ logmsgs[i].fsc > 0
       /\ binned_df[logmsgs[i].bin].var_noise > 0
       /\ binned_df[logmsgs[i].bin].FSCfull > logmsgs[i].fsc

\* C16: a bin of fewer than 3 coefficients gets a warning and no statistics
\* line and keeps var_noise = 0 and FSCfull = 0; when the loop is over every
\* bin has exactly one line, a warning if it has fewer than 3 coefficients
\* and a statistics line otherwise.
C16_SmallBinSkipped ==
  /\ \A i \in SkipLines :
       /\ Cardinality(HalfSel(logmsgs[i].bin)) < 3
       /\ binned_df[logmsgs[i].bin].var_noise = 0
       /\ binned_df[logmsgs[i].bin].FSCfull = 0
  /\ pc = "half_done" =>
       \A b \in DOMAIN binned_df :
         /\ Cardinality({i \in DOMAIN logmsgs : logmsgs[i].bin = b}) = 1
         /\ \A i \in DOMAIN logmsgs :
              logmsgs[i].bin = b =>
                (i \in SkipLines <=> Cardinality(HalfSel(b)) < 3)

C16_Witness ==
  /\ pc = "half_done"
  /\ logmsgs[1].line = "WARNING: skipping bin"
  /\ logmsgs[1].size = 2
  /\ \E i \in StatLines : i > 1 /\ binned_df[logmsgs[i].bin].FSCfull > 0

\* the two half maps are identical
IdenticalHalfMaps == \A r \in DOMAIN df : df[r].F_map1 = df[r].F_map2

\* C17 as stated: with identical half maps every bin ends with var_noise = 0
\* and FSCfull = 1.
C17_IdenticalAllBins ==
  (pc = "half_done" /\ IdenticalHalfMaps) =>
    \A b \in DOMAIN binned_df :
      binned_df[b].var_noise = 0 /\ binned_df[b].FSCfull = Q

\* C17 amended: with identical half maps every bin ends with var_noise = 0;
\* a bin of at least 3 coefficients that are not all equal ends with
\* FSCfull = 1, and a bin of fewer than 3 coefficients with FSCfull = 0.
C17_IdenticalProcessedBins ==
  (pc = "half_done" /\ IdenticalHalfMaps) =>
    \A b \in DOMAIN binned_df :
      LET I == HalfSel(b)
          x == [r \in I |-> df[r].F_map1]
      IN /\ binned_df[b].var_noise = 0
         /\ Cardinality(I) < 3 => binned_df[b].FSCfull = 0
         /\ (Cardinality(I) >= 3 /\ \E r, q \in I : x[r] # x[q]) =>
              binned_df[b].FSCfull = Q

C17_Witness ==
  /\ pc = "half_done"
  /\ IdenticalHalfMaps
  /\ \E b, c \in DOMAIN binned_df :
       /\ Cardinality(HalfSel(b)) >= 3 /\ binned_df[b].FSCfull = Q
       /\ Cardinality(HalfSel(c)) < 3 /\ binned_df[c].FSCfull = 0


\* ------------------------ main: the reflection table from the merged arrays
\* the Miller indices an array may lack: the first and the last of the set
MissingSets == SUBSET {1, NRefl}

\* an AsuData: a set of Miller indices and one value for each of them
AsuData(k, missing) ==
  [hkl |-> Refl \ missing, value |-> [h \in Refl \ missing |-> 10 * k + h]]

\* lines 273-274, 282, 285: the arrays main holds before the table is built
AsuInputs ==
  { [fp |-> AsuData(1, m[1]), sigfp |-> AsuData(2, m[2]),
     fc_asu |-> [i \in 1..(NModels - 1) |-> AsuData(2 + i, m[2 + i])],
     fmask_asu |-> AsuData(2 + NModels, m[2 + NModels])] :
    m \in [1..(NModels + 2) -> MissingSets] }

\* the column label "FC{i}"
FCLabel(i) == [name |-> "FC", i |-> i]

\* the arrays without the solvent-mask term
MergedArrays_no_mask(a) ==
  <<[label |-> [name |-> "FP", i |-> 0], asu |-> a.fp],
    [label |-> [name |-> "SIGFP", i |-> 0], asu |-> a.sigfp]>>
  \o Array([i \in 1..(NModels - 1) |-> [label |-> FCLabel(i - 1), asu |-> a.fc_asu[i]]],
           NModels - 1)

\* lines 301-305: the arrays in the order they go into the table, each with
\* its label: FP, SIGFP, FC0.. of the atomic models, FC{nmodels-1} of the mask
MergedArrays(a) ==
  <<[label |-> [name |-> "FP", i |-> 0], asu |-> a.fp],
    [label |-> [name |-> "SIGFP", i |-> 0], asu |-> a.sigfp]>>
  \o Array([i \in 1..(NModels - 1) |-> [label |-> FCLabel(i - 1), asu |-> a.fc_asu[i]]],
           NModels - 1)
  \o <<[label |-> FCLabel(NModels - 1), asu |-> a.fmask_asu]>>

\* hkl.hkldata_from_asu_data: one record per Miller index of the array
hkldata_from_asu_data(asu, label) ==
  [h \in asu.hkl |-> (label :> asu.value[h])]

\* HklData.merge_asu_data: the inner join of the table and the array on the
\* Miller index
merge_asu_data(tab, asu, label) ==
  [h \in (DOMAIN tab) \cap asu.hkl |-> tab[h] @@ (label :> asu.value[h])]

InitJoin ==
  /\ asus \in AsuInputs
  /\ df = <<>>
  /\ binned_df = <<>>
  /\ bin_and_indices = <<>>
  /\ pc = "join_new"
  /\ it = 0
  /\ loc = [defined |-> FALSE, idx |-> {}, Ds |-> <<>>]
  /\ ofs = <<>>
  /\ nwrite = <<>>
  /\ fitted = <<>>
  /\ inflight = {}
  /\ sts = <<>>
  /\ logmsgs = <<>>
  /\ args = NoValue
  /\ ret = NoValue

\* line 301
JoinNew ==
  /\ pc = "join_new"
  /\ LET first == MergedArrays(asus)[1]
     IN df' = hkldata_from_asu_data(first.asu, first.label)
  /\ it' = 2
  /\ pc' = "join_merge"
  /\ UNCHANGED <<binned_df, bin_and_indices, loc, ofs, nwrite, fitted, inflight,
                 sts, logmsgs, asus, args, ret>>

\* lines 302-305, one merge_asu_data call per step
JoinMerge ==
  /\ pc = "join_merge"
  /\ LET next == MergedArrays(asus)[it]
     IN df' = merge_asu_data(df, next.asu, next.label)
  /\ IF it < Len(MergedArrays(asus))
     THEN it' = it + 1 /\ pc' = pc
     ELSE it' = it /\ pc' = "join_done"
  /\ UNCHANGED <<binned_df, bin_and_indices, loc, ofs, nwrite, fitted, inflight,
                 sts, logmsgs, asus, args, ret>>

JoinNext ==
  \/ JoinNew
  \/ JoinMerge

JoinSpec == InitJoin /\ [][JoinNext]_vars

\* the Miller indices every array of main holds
CommonIndices ==
  {h \in Refl : /\ h \in asus.fp.hkl
                /\ h \in asus.sigfp.hkl
                /\ \A i \in DOMAIN asus.fc_asu : h \in asus.fc_asu[i].hkl
                /\ h \in asus.fmask_asu.hkl}

\* C18: once all the arrays are merged the table has one record for exactly
\* the Miller indices present in FP, SIGFP, every model's FC and the mask
\* term, each record with its NModels + 2 columns; and while arrays remain,
\* whatever indices they lack, the next merge can be taken (nothing is raised).
C18_TableIsInnerJoin ==
  /\ pc = "join_done" =>
       /\ DOMAIN df = CommonIndices
       /\ \A h \in DOMAIN df : Cardinality(DOMAIN df[h]) = NModels + 2
  /\ pc = "join_merge" => ENABLED JoinMerge

\* the last index is missing from the mask term alone, and has no record
C18_Witness ==
  /\ pc = "join_done"
  /\ NRefl \notin asus.fmask_asu.hkl
  /\ NRefl \in asus.fp.hkl /\ NRefl \in asus.sigfp.hkl
  /\ \A i \in DOMAIN asus.fc_asu : NRefl \in asus.fc_asu[i].hkl
  /\ NRefl \notin DOMAIN df
  /\ 1 \in DOMAIN df


\* --------------------------------------- the initial guesses of the bins
\* |Fc0| of a row, the amplitude of component 0 alone, in 1/Q
AbsFC0(row) == ISqrt(Q * Q * CNorm2(row.FCs[1]))

\* |FC0 + FC1 + ..| of a row, the amplitude of the sum of the components
AbsFCsum(row) == ISqrt(Q * Q * CNorm2(TotalFC(row.FCs)))

\* the state between the loop of lines 190-195 and the loop of lines 200-231
BeforeFirstFit == pc = "fit" /\ fitted = <<>>

\* bin b holds D0 = corrcoef(FP, amp), Dk = 1 for k >= 1 and
\* S = var(FP - D0 * amp), amp the amplitude column given
HoldsGuessOf(b, amp) ==
  LET idx == BinRows(b)
      FP == [r \in idx |-> Q * df[r].FP]
      D0 == corrcoef(FP, amp, idx)
  IN /\ binned_df[b].D[1] = D0
     /\ \A k \in 2..NModels : binned_df[b].D[k] = Q
     /\ binned_df[b].S = var([r \in idx |-> FP[r] - (D0 * amp[r]) \div Q], idx)

\* C20 as stated: before the first fit every bin (whose |Fc0| are not all
\* equal, so that the correlation exists) holds D0 = Pearson(Fo, |Fc0|),
\* Dk = 1 and S = var(Fo - D0 |Fc0|), |Fc0| the amplitude of component 0.
C20_GuessFromComponent0 ==
  BeforeFirstFit =>
    \A b \in BinIds :
      LET amp == [r \in BinRows(b) |-> AbsFC0(df[r])]
      IN CoMoment(amp, amp, BinRows(b)) > 0 => HoldsGuessOf(b, amp)

\* C20 amended: before the first fit every bin holds D0 = Pearson(Fo, |Fc|),
\* Dk = 1 for k >= 1 and S = var(Fo - D0 |Fc|), |Fc| the amplitude of the sum
\* of all the components; and no bin is fitted while guesses are being
\* written.
C20_GuessFromTotalFc ==
  /\ BeforeFirstFit =>
       \A b \in BinIds :
         HoldsGuessOf(b, [r \in BinRows(b) |-> AbsFCsum(df[r])])
  /\ pc \in {"defaults", "init_est"} => fitted = <<>>

\* before the first fit, a bin whose guess from the total differs from the
\* guess component 0 would give, and whose D0 is not the default
C20_Witness ==
  /\ BeforeFirstFit
  /\ \A b \in BinIds : Cardinality(BinRows(b)) >= 2
  /\ \E b \in BinIds :
       LET amp == [r \in BinRows(b) |-> AbsFC0(df[r])]
       IN /\ CoMoment(amp, amp, BinRows(b)) > 0
          /\ binned_df[b].D[1] # corrcoef([r \in BinRows(b) |-> Q * df[r].FP], amp, BinRows(b))
          /\ binned_df[b].D[1] # Q
          /\ binned_df[b].S > 0


\* ------------------- loss, gradient and synthesis of one reflection alone
DkValues == {0, Q \div 2, Q}

\* one reflection of either class with its bin's parameters
LikArgs ==
  {[row |-> InRow(r, ds, 1, cen),
    Ds |-> Array([k \in 1..NModels |-> IF k = 1 THEN d0 ELSE dk[k]], NModels),
    S |-> sp] :
     r \in Refl, ds \in 1..NInputs, cen \in {0, 1}, d0 \in D0Values,
     dk \in [2..NModels -> DkValues], sp \in SValues}

InitLik ==
  /\ df = <<>>
  /\ binned_df = <<>>
  /\ bin_and_indices = <<>>
  /\ pc = "lik_call"
  /\ it = 0
  /\ loc = [defined |-> FALSE, idx |-> {}, Ds |-> <<>>]
  /\ ofs = <<>>
  /\ nwrite = <<>>
  /\ fitted = <<>>
  /\ inflight = {}
  /\ sts = <<>>
  /\ logmsgs = <<>>
  /\ asus = <<>>
  /\ args \in LikArgs
  /\ ret = NoValue

\* lines 128-135 on the table of the one reflection
CallMlf ==
  /\ pc = "lik_call"
  /\ ret' = [defined |-> TRUE, fn |-> "mlf",
             value |-> mlf(<<args.row>>, {1}, args.Ds, args.S)]
  /\ pc' = "lik_returned"
  /\ UNCHANGED <<df, binned_df, bin_and_indices, it, loc, ofs, nwrite, fitted, inflight,
                 sts, logmsgs, asus, args>>

\* lines 137-144 on the table of the one reflection
CallDeriv ==
  /\ pc = "lik_call"
  /\ ret' = [defined |-> TRUE, fn |-> "deriv_mlf_wrt_D_S",
             value |-> deriv_mlf_wrt_D_S(<<args.row>>, {1}, args.Ds, args.S)]
  /\ pc' = "lik_returned"
  /\ UNCHANGED <<df, binned_df, bin_and_indices, it, loc, ofs, nwrite, fitted, inflight,
                 sts, logmsgs, asus, args>>

\* lines 362-380 for the one reflection
CallSynth ==
  /\ pc = "lik_call"
  /\ ret' = [defined |-> TRUE, fn |-> "synth",
             value |-> SynthRow(args.row, args.row.centric, args.Ds, args.S)]
  /\ pc' = "lik_returned"
  /\ UNCHANGED <<df, binned_df, bin_and_indices, it, loc, ofs, nwrite, fitted, inflight,
                 sts, logmsgs, asus, args>>

LikNext ==
  \/ CallMlf
  \/ CallDeriv
  \/ CallSynth

LikSpec == InitLik /\ [][LikNext]_vars

\* eqn (4) of the cited paper as functions of Fo, DFc and Sigma: the loss of
\* lines 79-88 and 101-110 ..
LossAt(c, FoQ, DFc, Sigma) ==
  IF c = 0
  THEN -(Ln2 + Ln(FoQ) - Ln(Sigma) - ((FoQ * FoQ + DFc * DFc) \div Sigma)
         + log_bessel_i0((2 * FoQ * DFc) \div Sigma))
  ELSE -(((LnTwoOverPi - Ln(Sigma)) \div 2) - ((FoQ * FoQ + DFc * DFc) \div (2 * Sigma))
         + log_cosh((FoQ * DFc) \div Sigma))

\* .. the figure of merit of lines 69-77 ..
FomAt(c, FoQ, DFc, Sigma) ==
  IF c = 0 THEN bessel_i1_over_i0((2 * FoQ * DFc) \div Sigma)
           ELSE tanh((FoQ * DFc) \div Sigma)

\* .. and the derivative with respect to S of lines 98 and 120
DerivSAt(c, FoQ, DFc, Sigma, epsilon) ==
  LET m == FomAt(c, FoQ, DFc, Sigma)
  IN IF c = 0
     THEN -((-((Q * Q) \div Sigma)
             + (((FoQ * FoQ + DFc * DFc - ((m * 2 * FoQ) \div Q) * DFc) \div Sigma) * Q)
                 \div Sigma) * epsilon)
     ELSE -((-((Q * Q) \div (2 * Sigma))
             + ((((FoQ * FoQ + DFc * DFc) \div 2 - ((m * FoQ) \div Q) * DFc) \div Sigma) * Q)
                 \div Sigma) * epsilon)

\* the value returned is the one the formulas give at DFc and Sigma: the
\* loss, the S entry of the gradient, and FOM, FWT, DELFWT of the synthesis
ReturnedAt(DFc, Sigma) ==
  LET row == args.row
      c == row.centric
      FoQ == Q * row.FP
      m == FomAt(c, FoQ, DFc, Sigma)
  IN CASE ret.fn = "mlf" -> ret.value = LossAt(c, FoQ, DFc, Sigma)
       [] ret.fn = "deriv_mlf_wrt_D_S" ->
            /\ Len(ret.value) = Len(args.Ds) + 1
            /\ ret.value[Len(ret.value)] = DerivSAt(c, FoQ, DFc, Sigma, row.epsilon)
       [] ret.fn = "synth" ->
            /\ ret.value.FOM = m
            /\ ret.value.DELFWT.amp = (m * FoQ) \div Q - DFc
            /\ ret.value.FWT.amp = IF c = 0 THEN (2 * m * FoQ) \div Q - DFc
                                            ELSE (m * FoQ) \div Q

\* the Sigma the model's functions compute for the reflection of args
SigmaOfArgs ==
  IF args.row.centric = 0
  THEN Sigma_acentric(args.row.SIGFP * args.row.SIGFP, args.S, args.row.epsilon)
  ELSE Sigma_centric(args.row.SIGFP * args.row.SIGFP, args.S, args.row.epsilon)

\* D0 |Fc0 + D1 Fc1 + .. + D(n-1) Fc(n-1)|, component by component
CombinedAmplitude(Ds, Fcs) ==
  LET K == 2..Len(Ds)
      re == Q * Fcs[1][1] + SumOver([k \in K |-> Ds[k] * Fcs[k][1]], K)
      im == Q * Fcs[1][2] + SumOver([k \in K |-> Ds[k] * Fcs[k][2]], K)
  IN (Ds[1] * ISqrt(re * re + im * im)) \div Q

\* C21: the loss, the gradient and FOM, FWT, DELFWT of a reflection are the
\* values of the formulas at DFc = D0 |Fc0 + D1 Fc1 + .. + D(n-1) Fc(n-1)|:
\* D0 multiplies the modulus of the sum, Dk (k >= 1) multiplies component k.
C21_CombinedAmplitude ==
  pc = "lik_returned" =>
    ReturnedAt(CombinedAmplitude(args.Ds, args.row.FCs), SigmaOfArgs)

\* a call with D0 and D1 both different from 0 and 1, and FOM neither 0 nor 1
C21_Witness ==
  /\ pc = "lik_returned"
  /\ ret.fn = "synth"
  /\ args.Ds[1] = Q \div 2 /\ args.Ds[2] = Q \div 2
  /\ ret.value.FOM > 0 /\ ret.value.FOM < Q - 1
  /\ CombinedAmplitude(args.Ds, args.row.FCs) > 0


\* C22: the loss, the gradient and the FOM (with FWT, DELFWT) of a reflection
\* are the values of the formulas at one and the same Sigma, which is
\* 2 SIGFP^2 + epsilon S for an acentric and SIGFP^2 + epsilon S for a
\* centric reflection, SIGFP and epsilon those of the reflection's own row.
C22_SameSigma ==
  pc = "lik_returned" =>
    LET row == args.row
        varFo == row.SIGFP * row.SIGFP
    IN ReturnedAt(calc_DFc(args.Ds, FcsOf(row, args.Ds)),
                  IF row.centric = 0 THEN 2 * Q * varFo + row.epsilon * args.S
                                     ELSE Q * varFo + row.epsilon * args.S)

\* the gradient of a centric reflection with SIGFP = 2, epsilon = 2 and a
\* non-zero derivative with respect to S
C22_Witness ==
  /\ pc = "lik_returned"
  /\ ret.fn = "deriv_mlf_wrt_D_S"
  /\ args.row.centric = 1
  /\ args.row.SIGFP = 2 /\ args.row.epsilon = 2
  /\ ret.value[Len(ret.value)] # 0


\* C23: every fitted bin holds exactly the vector the optimizer returned from
\* the bin's initial guess (D = x[0], Dk = x[k], S = x[last]), whether or not
\* res.success holds, and no message has been written and nothing has failed.
C23_ResultAcceptedAsIs ==
  pc = "fit" =>
    /\ \A b \in Range(fitted) :
         LET res_x == MinimizeIter(df, BinRows(b), InitialVector(b), MaxIter)
         IN /\ binned_df[b].D = SubSeq(res_x, 1, NModels)
            /\ binned_df[b].S = res_x[NModels + 1]
    /\ logmsgs = <<>>

\* a fitted bin whose optimizer run did not converge and moved away from the
\* initial guess
C23_Witness ==
  /\ pc = "fit"
  /\ \E b \in Range(fitted) :
       /\ ~minimize_success(df, BinRows(b), InitialVector(b))
       /\ ParamVector(binned_df[b]) # InitialVector(b)
       /\ ParamVector(binned_df[b]) = minimize(df, BinRows(b), InitialVector(b))


\* the bin indices one enumeration of binned() yields, in order
BinnedIds == [k \in DOMAIN bin_and_indices |-> bin_and_indices[k][1]]

\* C24: an enumeration of binned() has one pair for each bin of the bin
\* table, each bin index once, with the reflections that carry that index;
\* and the three passes saw the same sequence: before the first fit every
\* bin holds the estimate of its own set, the fits were made in the order of
\* the enumeration, each bin once, and at the end the log has one row per bin
\* in that order and every reflection was written once.
C24_EnumerationRestartable ==
  /\ pc # "setup_binning" =>
       /\ Len(bin_and_indices) = Cardinality(DOMAIN binned_df)
       /\ Range(BinnedIds) = DOMAIN binned_df
       /\ \A k \in DOMAIN bin_and_indices :
            Range(bin_and_indices[k][2]) = {r \in DOMAIN df : df[r].bin = BinnedIds[k]}
  /\ (pc = "fit" /\ fitted = <<>>) =>
       \A k \in DOMAIN bin_and_indices :
         binned_df[BinnedIds[k]].S
           = var([r \in Range(bin_and_indices[k][2]) |->
                    Q * df[r].FP - (binned_df[BinnedIds[k]].D[1] * AbsFC(df[r])) \div Q],
                 Range(bin_and_indices[k][2]))
  /\ pc \in {"fit", "synth", "done"} => fitted = SubSeq(BinnedIds, 1, Len(fitted))
  /\ pc \in {"synth", "done"} => fitted = BinnedIds
  /\ pc = "done" =>
       /\ [k \in DOMAIN ofs |-> ofs[k].bin] = BinnedIds
       /\ \A r \in DOMAIN df : nwrite[r] = 1

\* the end of a run in which fits and outputs were written between the
\* enumerations, every bin holding reflections
C24_Witness ==
  /\ pc = "done"
  /\ Len(fitted) = NBins /\ Len(ofs) = NBins
  /\ \A k \in DOMAIN bin_and_indices : Len(bin_and_indices[k][2]) >= 2
  /\ \E b \in DOMAIN binned_df : binned_df[b].D # Ones(NModels)
  /\ \E r \in DOMAIN df : df[r].FOM > 0


\* the interpreter goes on to the next statement: while the run is in
\* determine_mlf_params (or before it) its position moves
Advance ==
  /\ pc \in {"setup_binning", "defaults", "init_est", "fit"}
  /\ pc' \in {"defaults", "init_est", "fit", "synth"}
  /\ it' \in 0..(Len(bin_and_indices) + 1)
  /\ <<pc, it>>' # <<pc, it>>

\* the run as a sequential program: it does not stop between two statements
LiveSpec == Init /\ [][Next]_vars /\ WF_<<pc, it>>(Advance)

\* C25: no bin is ever fitted a second time, and the loop of fits comes to
\* its end with the optimizer run exactly once for every bin of the table.
C25_EachBinFittedOnce ==
  /\ [](\A j, k \in DOMAIN fitted : j # k => fitted[j] # fitted[k])
  /\ [](Len(fitted) <= Cardinality(DOMAIN binned_df) \/ pc = "setup_binning")
  /\ <>(/\ pc = "synth"
        /\ Range(fitted) = DOMAIN binned_df
        /\ Len(fitted) = Cardinality(DOMAIN binned_df))

\* the loop has ended, and one of its optimizer runs had not converged
C25_Witness ==
  /\ pc = "synth"
  /\ Len(fitted) = NBins
  /\ \E b \in Range(fitted) : ~minimize_success(df, BinRows(b), InitialVector(b))


\* C26: every row of the log table describes its bin as a whole: n_a + n_c is
\* the number of reflections of the bin, and the means of |Fo|^2, |Fc|^2 and
\* |DFc|^2 (logged as their logarithms) are taken over all the reflections of
\* the bin, of both classes.
C26_LogRowWholeBin ==
  \A k \in DOMAIN ofs :
    LET b == ofs[k].bin
        idx == BinRows(b)
        Ds == ofs[k].Ds
    IN /\ ofs[k].n_a + ofs[k].n_c = Cardinality(idx)
       /\ ofs[k].Mn_Fo2 = Ln(Q * Mean([r \in idx |-> df[r].FP * df[r].FP], idx))
       /\ ofs[k].Mn_Fc2 = Ln(Q * Mean([r \in idx |-> CNorm2(df[r].FC)], idx))
       /\ ofs[k].Mn_DFc2 = Ln(Mean([r \in idx |->
                                      (calc_DFc(Ds, FcsOf(df[r], Ds))
                                       * calc_DFc(Ds, FcsOf(df[r], Ds))) \div Q], idx))


\* --------------------------------------------- main from its first statement
\* --nbins as given on the command line
NbinsValues == {0 - 1, 0, NBins}

\* the arguments of main: nbins, and the model and reflection files, each
\* standing for what reading it gives
MainArgs ==
  {[defined |-> TRUE, nbins |-> n, model |-> ms, hklin |-> t] :
     n \in NbinsValues, ms \in ModelInputs, t \in MainTables}

\* the test accepts 0
nbins_rejected_below_0(nbins) == nbins < 0

\* line 249
nbins_rejected(nbins) == nbins < 1

InitEntry ==
  /\ df = <<>>
  /\ binned_df = <<>>
  /\ bin_and_indices = <<>>
  /\ pc = "main"
  /\ it = 0
  /\ loc = [defined |-> FALSE, idx |-> {}, Ds |-> <<>>]
  /\ ofs = <<>>
  /\ nwrite = <<>>
  /\ fitted = <<>>
  /\ inflight = {}
  /\ sts = <<>>
  /\ logmsgs = <<>>
  /\ asus = <<>>
  /\ args \in MainArgs
  /\ ret = NoValue

\* lines 249-251
CheckNbins ==
  /\ pc = "main"
  /\ IF nbins_rejected(args.nbins)
     THEN /\ logmsgs' = Append(logmsgs, [level |-> "error", line |-> "--nbins must be > 0"])
          /\ pc' = "returned"
     ELSE /\ logmsgs' = logmsgs
          /\ pc' = "read_files"
  /\ UNCHANGED <<df, binned_df, bin_and_indices, it, loc, ofs, nwrite, fitted, inflight,
                 sts, asus, args, ret>>

\* lines 253-256 and 267-323: the models and the reflection data are read
ReadFiles ==
  /\ pc = "read_files"
  /\ sts' = args.model
  /\ df' = args.hklin
  /\ nwrite' = [r \in Refl |-> 0]
  /\ pc' = "read_models"
  /\ UNCHANGED <<binned_df, bin_and_indices, it, loc, ofs, fitted, inflight,
                 logmsgs, asus, args, ret>>

EntryNext ==
  \/ CheckNbins
  \/ ReadFiles
  \/ CheckModels
  \/ SetupBinning
  \/ SetDefaults
  \/ InitialEstimate
  \/ FitBin
  \/ SynthInit
  \/ SynthBin

EntrySpec == InitEntry /\ [][EntryNext]_vars

\* C27: with --nbins below 1 the run is at its start or has returned; no
\* model and no reflection data have been read, no bin table exists, nothing
\* has been fitted and no log row written; once returned the only message is
\* the error.
C27_NbinsRejectedFirst ==
  args.nbins < 1 =>
    /\ pc \in {"main", "returned"}
    /\ sts = <<>> /\ df = <<>>
    /\ binned_df = <<>> /\ bin_and_indices = <<>>
    /\ fitted = <<>> /\ ofs = <<>>
    /\ pc = "returned" =>
         logmsgs = <<[level |-> "error", line |-> "--nbins must be > 0"]>>

\* main has returned on --nbins 0
C27_Witness ==
  /\ pc = "returned"
  /\ args.nbins = 0
  /\ Len(logmsgs) = 1 /\ logmsgs[1].level = "error"


\* ------------------------------------ refmac_wrapper.py: main and read_stdin
MaxLines == 3

\* the keyword lines a user may give on stdin
KeywordLines ==
  {"labin FP=F", "ncyc 5", "end", "make exit", "make hydr full",
   "make build yes", "refi type unre"}

RECURSIVE SeqsUpTo(_, _)
\* the sequences over S of length at most n
SeqsUpTo(S, n) ==
  IF n = 0 THEN {<<>>}
  ELSE LET shorter == SeqsUpTo(S, n - 1)
       IN shorter \cup {Append(q, x) : q \in {t \in shorter : Len(t) = n - 1}, x \in S}

\* what utils.refmac.check_version may return (FALSE: no version found)
NoVersion == <<>>
RefmacVersions == {NoVersion, <<5, 7, 900>>, <<5, 8, 403>>, <<5, 8, 404>>}

\* python's tuple comparison a < b of two versions
VersionLess(a, b) ==
  \/ a[1] < b[1]
  \/ a[1] = b[1] /\ a[2] < b[2]
  \/ a[1] = b[1] /\ a[2] = b[2] /\ a[3] < b[3]

\* the run of the wrapper: stdin, whether XYZIN is among the options, what
\* the version check finds, whether prepare_crd returns metal keywords and
\* whether Refmac leaves an mmcif output file
WrapArgs ==
  {[defined |-> TRUE, lines |-> ls, xyzin |-> x, version |-> v, metal |-> mk,
    cifout_exists |-> ce] :
     ls \in SeqsUpTo(KeywordLines, MaxLines), x \in BOOLEAN, v \in RefmacVersions,
     mk \in BOOLEAN, ce \in BOOLEAN}

\* the loop without its break
read_stdin_no_break(lines, k) == [text |-> lines, stopped |-> FALSE]

RECURSIVE read_stdin_loop(_, _)
\* lines 52-56: the lines appended to inputs from position k on; the loop
\* breaks at the first line whose first word starts with "end"
read_stdin_loop(lines, k) ==
  IF k > Len(lines) THEN [text |-> <<>>, stopped |-> FALSE]
  ELSE IF lines[k] = "end" THEN [text |-> <<>>, stopped |-> TRUE]
  ELSE LET rest == read_stdin_loop(lines, k + 1)
       IN [text |-> <<lines[k]>> \o rest.text, stopped |-> rest.stopped]

\* refmac_keywords.parse_line over the lines read: the dictionary ret
parse_lines(inputs) ==
  LET has(l) == \E j \in DOMAIN inputs : inputs[j] = l
  IN [make_exit |-> has("make exit"), make_hydr_f |-> has("make hydr full"),
      make_buil_y |-> has("make build yes"), refi_type_unre |-> has("refi type unre")]

InitWrap ==
  /\ df = <<>>
  /\ binned_df = <<>>
  /\ bin_and_indices = <<>>
  /\ pc = "w_read_stdin"
  /\ it = 0
  /\ loc = [defined |-> FALSE]
  /\ ofs = <<>>
  /\ nwrite = <<>>
  /\ fitted = <<>>
  /\ inflight = {}
  /\ sts = <<>>
  /\ logmsgs = <<>>
  /\ asus = <<>>
  /\ args \in WrapArgs
  /\ ret = NoValue

\* line 234 and read_stdin (lines 48-65)
WrapReadStdin ==
  /\ pc = "w_read_stdin"
  /\ LET inputs == read_stdin_loop(args.lines, 1).text
         keywords == parse_lines(inputs)
     IN IF keywords.make_hydr_f \/ keywords.make_buil_y
        THEN /\ ret' = [defined |-> TRUE, exc |-> "SystemExit: Sorry"]
             /\ pc' = "w_exit"
             /\ loc' = loc
        ELSE /\ loc' = [defined |-> TRUE, inputs |-> inputs, keywords |-> keywords,
                       crdout |-> FALSE]
             /\ pc' = "w_check_version"
             /\ ret' = ret
  /\ UNCHANGED <<df, binned_df, bin_and_indices, it, ofs, nwrite, fitted, inflight,
                 sts, logmsgs, asus, args>>

\* lines 238-241: the two tests that end the run
version_rejected(refmac_ver) ==
  \/ refmac_ver = NoVersion
  \/ VersionLess(refmac_ver, <<5, 8, 404>>)

\* lines 235-241
WrapCheckVersion ==
  /\ pc = "w_check_version"
  /\ IF ~loc.keywords.make_exit
     THEN /\ logmsgs' = Append(logmsgs, "check_version")
          /\ IF version_rejected(args.version)
             THEN /\ ret' = [defined |-> TRUE, exc |-> "SystemExit: Error"]
                  /\ pc' = "w_exit"
             ELSE /\ ret' = ret
                  /\ pc' = "w_process_model"
     ELSE /\ logmsgs' = logmsgs
          /\ ret' = ret
          /\ pc' = "w_process_model"
  /\ UNCHANGED <<df, binned_df, bin_and_indices, it, loc, ofs, nwrite, fitted, inflight,
                 sts, asus, args>>

\* lines 263-295: the crd file is prepared and the metal keywords are put
\* before the user's
WrapProcessModel ==
  /\ pc = "w_process_model"
  /\ IF args.xyzin /\ ~loc.keywords.refi_type_unre
     THEN /\ logmsgs' = Append(logmsgs, "prepare_crd")
          /\ loc' = [loc EXCEPT !.inputs = (IF args.metal THEN <<"exte dist metal">>
                                                          ELSE <<>>) \o @,
                                !.crdout = TRUE]
     ELSE /\ logmsgs' = logmsgs
          /\ loc' = loc
  /\ pc' = "w_run"
  /\ UNCHANGED <<df, binned_df, bin_and_indices, it, ofs, nwrite, fitted, inflight,
                 sts, asus, args, ret>>

\* the return of lines 297-298 left out
make_exit_returns_never(keywords) == FALSE

\* line 297
make_exit_returns(keywords) == keywords.make_exit

\* lines 297-313: return on make exit; otherwise the child is started, the
\* keywords are written to its stdin and stdin is closed
WrapRun ==
  /\ pc = "w_run"
  /\ IF make_exit_returns(loc.keywords)
     THEN /\ pc' = "w_returned"
          /\ UNCHANGED <<ofs, logmsgs, inflight>>
     ELSE /\ inflight' = {"refmac"}
          /\ ofs' = (IF loc.crdout THEN <<"make cr prepared">> ELSE <<>>) \o loc.inputs
          /\ logmsgs' = logmsgs \o <<"Popen", "stdin.write", "stdin.close">>
          /\ pc' = "w_read_output"
  /\ UNCHANGED <<df, binned_df, bin_and_indices, it, loc, nwrite, fitted,
                 sts, asus, args, ret>>

\* lines 321-329: the output of the child is read to its end and the child
\* is waited for
WrapReadOutput ==
  /\ pc = "w_read_output"
  /\ logmsgs' = logmsgs \o <<"stdout.readline", "wait">>
  /\ inflight' = {}
  /\ pc' = "w_modify_output"
  /\ UNCHANGED <<df, binned_df, bin_and_indices, it, loc, ofs, nwrite, fitted,
                 sts, asus, args, ret>>

\* lines 332-335
WrapModifyOutput ==
  /\ pc = "w_modify_output"
  /\ logmsgs' = IF args.xyzin /\ args.cifout_exists
                THEN Append(logmsgs, "modify_output") ELSE logmsgs
  /\ pc' = "w_returned"
  /\ UNCHANGED <<df, binned_df, bin_and_indices, it, loc, ofs, nwrite, fitted, inflight,
                 sts, asus, args, ret>>

WrapNext ==
  \/ WrapReadStdin
  \/ WrapCheckVersion
  \/ WrapProcessModel
  \/ WrapRun
  \/ WrapReadOutput
  \/ WrapModifyOutput

WrapSpec == InitWrap /\ [][WrapNext]_vars


\* the position of the first occurrence of e in the sequence q (0: none)
FirstIndex(q, e) ==
  IF \E j \in DOMAIN q : q[j] = e
  THEN CHOOSE j \in DOMAIN q : q[j] = e /\ \A h \in 1..(j - 1) : q[h] # e
  ELSE 0

\* the user's lines before the first "end" line, in their order
LinesBeforeEnd ==
  SubSeq(args.lines, 1,
         IF FirstIndex(args.lines, "end") = 0 THEN Len(args.lines)
         ELSE FirstIndex(args.lines, "end") - 1)

\* C28: once the child is started its stdin holds, in this order, "make cr
\* prepared" if and only if a crd file was prepared, the metal keywords, and
\* the user's lines before the first "end" line in their original order (no
\* "end" line and nothing after it); stdin is closed before the first read
\* of the child's output, and nothing is written to it afterwards.
C28_KeywordStreamOrdered ==
  /\ FirstIndex(logmsgs, "Popen") = 0 => ofs = <<>>
  /\ FirstIndex(logmsgs, "Popen") # 0 =>
       /\ ofs = (IF FirstIndex(logmsgs, "prepare_crd") # 0
                 THEN <<"make cr prepared">> ELSE <<>>)
                \o (IF FirstIndex(logmsgs, "prepare_crd") # 0 /\ args.metal
                    THEN <<"exte dist metal">> ELSE <<>>)
                \o LinesBeforeEnd
       /\ FirstIndex(logmsgs, "stdin.close") > FirstIndex(logmsgs, "stdin.write")
       /\ FirstIndex(logmsgs, "stdout.readline") # 0 =>
            FirstIndex(logmsgs, "stdin.close") < FirstIndex(logmsgs, "stdout.readline")

\* the child has been run with a prepared crd file, metal keywords and two
\* user lines before an "end" line that another line follows
C28_Witness ==
  /\ pc = "w_returned"
  /\ args.lines = <<"labin FP=F", "ncyc 5", "end">> \/ args.lines = <<"ncyc 5", "end", "labin FP=F">>
  /\ ofs \in {<<"make cr prepared", "exte dist metal", "labin FP=F", "ncyc 5">>,
              <<"make cr prepared", "exte dist metal", "ncyc 5">>}
  /\ FirstIndex(logmsgs, "stdout.readline") # 0

\* the keywords read from stdin contain "make exit"
HasMakeExit == \E j \in DOMAIN LinesBeforeEnd : LinesBeforeEnd[j] = "make exit"

\* C29: with "make exit" among the keywords no version check is made, the
\* child is never started and no output model is modified, and the run
\* returns having at most prepared the crd file; without it the child is
\* started only after a version check that found a version >= 5.8.404.
C29_MakeExitStopsBeforeRefmac ==
  /\ HasMakeExit =>
       /\ \A j \in DOMAIN logmsgs : logmsgs[j] = "prepare_crd"
       /\ Len(logmsgs) <= 1
       /\ inflight = {} /\ ofs = <<>>
       /\ pc \in {"w_read_stdin", "w_check_version", "w_process_model", "w_run",
                  "w_returned", "w_exit"}
  /\ FirstIndex(logmsgs, "Popen") # 0 =>
       /\ ~HasMakeExit
       /\ FirstIndex(logmsgs, "check_version") # 0
       /\ FirstIndex(logmsgs, "check_version") < FirstIndex(logmsgs, "Popen")
       /\ args.version # NoVersion
       /\ ~VersionLess(args.version, <<5, 8, 404>>)

\* the run has returned on "make exit" after preparing the crd file, with a
\* Refmac that the version check would have rejected
C29_Witness ==
  /\ pc = "w_returned"
  /\ HasMakeExit
  /\ logmsgs = <<"prepare_crd">>
  /\ args.version = <<5, 8, 403>>


\* ------------------------------- refmac_wrapper.py: get_output_model_names
\* A file name is the sequence of its characters.
MaxStem == 3

\* str.lower() of one character
LowerChar(c) ==
  CASE c = "P" -> "p" [] c = "D" -> "d" [] c = "B" -> "b"
    [] c = "C" -> "c" [] c = "I" -> "i" [] c = "F" -> "f" [] c = "M" -> "m"
    [] OTHER -> c

\* str.lower()
lower(str) == [j \in 1..Len(str) |-> LowerChar(str[j])]

\* str.endswith(suffix)
endswith(str, suffix) ==
  /\ Len(str) >= Len(suffix)
  /\ SubSeq(str, Len(str) - Len(suffix) + 1, Len(str)) = suffix

\* str[:-n]
DropLast(str, n) == SubSeq(str, 1, IF Len(str) > n THEN Len(str) - n ELSE 0)

\* the endings the function looks at, in both cases, and endings close to them
NameEndings ==
  {<<>>, <<"p", "d", "b">>, <<".", "p", "d", "b">>, <<".", "P", "D", "B">>,
   <<"c", "i", "f">>, <<".", "c", "i", "f">>, <<".", "C", "I", "F">>,
   <<"m", "m", "c", "i", "f">>, <<".", "m", "m", "c", "i", "f">>,
   <<".", "m", "m", "C", "i", "f">>, <<"c", "i">>, <<"d", "b">>}

\* xyzout: None, or a stem followed by one of the endings
NameArgs ==
  {[defined |-> TRUE, is_none |-> TRUE, xyzout |-> <<>>]}
  \cup {[defined |-> TRUE, is_none |-> FALSE, xyzout |-> stem \o ending] :
          stem \in SeqsUpTo({"a", "."}, MaxStem), ending \in NameEndings}

\* the test len(xyzout) > 5 of line 171 taken as len(xyzout) > 4
get_output_model_names_len_4(xyzout_arg, is_none) ==
  LET xyzout == IF is_none THEN <<"X", "Y", "Z", "O", "U", "T">> ELSE xyzout_arg
      dot_mmcif == <<".", "m", "m", "c", "i", "f">>
      dot_pdb == <<".", "p", "d", "b">>
  IN IF Len(xyzout) > 3
     THEN IF endswith(lower(xyzout), <<"p", "d", "b">>)
          THEN [pdb |-> xyzout, mmcif |-> DropLast(xyzout, 4) \o dot_mmcif]
          ELSE IF endswith(lower(xyzout), <<"c", "i", "f">>) /\ Len(xyzout) > 4
               THEN IF endswith(lower(xyzout), <<"m", "m", "c", "i", "f">>)
                    THEN [pdb |-> DropLast(xyzout, 6) \o dot_pdb, mmcif |-> xyzout]
                    ELSE [pdb |-> DropLast(xyzout, 4) \o dot_pdb, mmcif |-> xyzout]
               ELSE [pdb |-> xyzout, mmcif |-> xyzout \o dot_mmcif]
     ELSE [pdb |-> xyzout, mmcif |-> xyzout \o dot_mmcif]

\* lines 162-185
get_output_model_names(xyzout_arg, is_none) ==
  LET xyzout == IF is_none THEN <<"X", "Y", "Z", "O", "U", "T">> ELSE xyzout_arg
      dot_mmcif == <<".", "m", "m", "c", "i", "f">>
      dot_pdb == <<".", "p", "d", "b">>
  IN IF Len(xyzout) > 3
     THEN IF endswith(lower(xyzout), <<"p", "d", "b">>)
          THEN [pdb |-> xyzout, mmcif |-> DropLast(xyzout, 4) \o dot_mmcif]
          ELSE IF endswith(lower(xyzout), <<"c", "i", "f">>) /\ Len(xyzout) > 5
               THEN IF endswith(lower(xyzout), <<"m", "m", "c", "i", "f">>)
                    THEN [pdb |-> DropLast(xyzout, 6) \o dot_pdb, mmcif |-> xyzout]
                    ELSE [pdb |-> DropLast(xyzout, 4) \o dot_pdb, mmcif |-> xyzout]
               ELSE [pdb |-> xyzout, mmcif |-> xyzout \o dot_mmcif]
     ELSE [pdb |-> xyzout, mmcif |-> xyzout \o dot_mmcif]

InitName ==
  /\ df = <<>>
  /\ binned_df = <<>>
  /\ bin_and_indices = <<>>
  /\ pc = "name_call"
  /\ it = 0
  /\ loc = [defined |-> FALSE]
  /\ ofs = <<>>
  /\ nwrite = <<>>
  /\ fitted = <<>>
  /\ inflight = {}
  /\ sts = <<>>
  /\ logmsgs = <<>>
  /\ asus = <<>>
  /\ args \in NameArgs
  /\ ret = NoValue

\* one call of get_output_model_names
CallGetOutputModelNames ==
  /\ pc = "name_call"
  /\ LET names == get_output_model_names(args.xyzout, args.is_none)
     IN ret' = [defined |-> TRUE, pdb |-> names.pdb, mmcif |-> names.mmcif]
  /\ pc' = "name_returned"
  /\ UNCHANGED <<df, binned_df, bin_and_indices, it, loc, ofs, nwrite, fitted, inflight,
                 sts, logmsgs, asus, args>>

NameNext == CallGetOutputModelNames

NameSpec == InitName /\ [][NameNext]_vars

\* the name the call was about: "XYZOUT" for None
GivenName == IF args.is_none THEN <<"X", "Y", "Z", "O", "U", "T">> ELSE args.xyzout

\* the last three characters of the name are c, i, f in either case
EndsInCif ==
  LET n == Len(GivenName)
  IN /\ n >= 3
     /\ GivenName[n - 2] \in {"c", "C"}
     /\ GivenName[n - 1] \in {"i", "I"}
     /\ GivenName[n] \in {"f", "F"}

\* C30: the two names returned are different, exactly one of them is xyzout
\* itself, and it is the mmcif name exactly when xyzout is longer than 5
\* characters and ends, in either case, with "cif" (which excludes an ending
\* "pdb"); otherwise it is the pdb name.
C30_ExactlyOneNameIsXyzout ==
  pc = "name_returned" =>
    /\ ret.pdb # ret.mmcif
    /\ (ret.pdb = GivenName) # (ret.mmcif = GivenName)
    /\ (ret.mmcif = GivenName) <=> (Len(GivenName) > 5 /\ EndsInCif)

\* a name of 5 characters ending with "cif" has come back as the pdb name,
\* with ".mmcif" appended for the other
C30_Witness ==
  /\ pc = "name_returned"
  /\ ~args.is_none
  /\ Len(args.xyzout) = 5 /\ EndsInCif
  /\ ret.pdb = args.xyzout
  /\ Len(ret.mmcif) = 11

====
